---------------------------- MODULE Spec2Model ----------------------------
(***************************************************************************)
(* A model of crates/ui/src/text/format/html.rs: the conversion of a DOM   *)
(* tree into the block/inline document model.                              *)
(*                                                                         *)
(* Strings are sequences of one-character strings, so that suffix          *)
(* stripping, splitting and byte offsets are computed as the code computes *)
(* them.  An Option is a sequence of length 0 (None) or 1 (Some).          *)
(* f32 values are modelled as exact decimal fractions num/den with den a   *)
(* power of ten (no rounding).                                             *)
(***************************************************************************)
EXTENDS Integers, Sequences, FiniteSets, TLC

VARIABLES
    pc,         \* which call is being made and whether it has returned
    node,       \* node: &Rc<Node>, the DOM node handed to the function
    paragraph,  \* paragraph: &mut Paragraph, the accumulator
    block,      \* the Option<BlockNode> returned / the document's block
    value,      \* value: &str of value_to_length
    length,     \* the Option<DefiniteLength> it returns
    attrs,      \* attrs of attr_width_height
    size,       \* the (width, height) pair it returns
    source,     \* source: &str of parse
    minified,   \* what minify.minify(&mut r) returned, and what it wrote to w
    bytes,      \* the bytes handed to the tokenizer
    read_error, \* whether read_from(&mut cursor) returned an error
    document,   \* the Result<ParsedDocument, SharedString> parse returns
    text_view_state,  \* GlobalState::global(cx).text_view_state()
    alt_text,   \* InlineImage::alt_text
    bounds,     \* bounds: Bounds<Pixels> of the last paint
    state,      \* the InlineState behind InlineImage::state
    window,     \* what the last paint set on the window
    point,      \* the arguments of point_in_text_selection
    selected,   \* the bool it returns
    overlays,   \* Inline::overlays
    handler,    \* hovered_index as captured by the registered mouse-move handler
    notified,   \* whether the last mouse move called cx.notify(current_view)
    text_marks  \* the (text, marks) pair parse_paragraph returns

vars == <<pc, node, paragraph, block, value, length, attrs, size,
          source, minified, bytes, read_error, document,
          text_view_state, alt_text, bounds, state, window,
          point, selected, overlays, handler, notified, text_marks>>

domVars == <<node, paragraph, block>>
lenVars == <<value, length>>
attrVars == <<attrs, size>>
parseVars == <<source, minified, bytes, read_error, document>>
imageVars == <<text_view_state, alt_text, bounds, state, window>>
inlineVars == <<point, selected, overlays, handler, notified>>
paintVars == <<overlays, handler, notified>>
pairVars == <<text_marks>>

\* parse has not been called
NoParse ==
    /\ source = <<>> /\ minified = <<>> /\ bytes = <<>>
    /\ read_error = <<>> /\ document = <<>>

\* no function of inline.rs has been called
NoInlinePaint == overlays = <<>> /\ handler = <<>> /\ notified = FALSE
NoInline == point = <<>> /\ selected = <<>> /\ NoInlinePaint

\* parse_paragraph has not been called directly
NoPair == text_marks = <<>>

\* no InlineImage has been built
NoImage ==
    /\ text_view_state = <<>> /\ alt_text = <<>> /\ bounds = <<>>
    /\ state = <<>> /\ window = <<>>

-----------------------------------------------------------------------------
(* Options and strings *)

None == <<>>
Some(v) == <<v>>
IsSome(o) == o # <<>>
IsNone(o) == o = <<>>
Unwrap(o) == o[1]

\* str::ends_with
EndsWith(s, suffix) ==
    /\ Len(s) >= Len(suffix)
    /\ SubSeq(s, Len(s) - Len(suffix) + 1, Len(s)) = suffix

\* str::starts_with
StartsWith(s, prefix) ==
    /\ Len(s) >= Len(prefix)
    /\ SubSeq(s, 1, Len(prefix)) = prefix

\* str::trim_end_matches: the suffix is removed repeatedly, as long as it matches
RECURSIVE trim_end_matches(_, _)
trim_end_matches(s, pat) ==
    IF Len(pat) > 0 /\ EndsWith(s, pat)
    THEN trim_end_matches(SubSeq(s, 1, Len(s) - Len(pat)), pat)
    ELSE s

Digits == {"0", "1", "2", "3", "4", "5", "6", "7", "8", "9"}

DigitVal(c) ==
    CASE c = "0" -> 0 [] c = "1" -> 1 [] c = "2" -> 2 [] c = "3" -> 3
      [] c = "4" -> 4 [] c = "5" -> 5 [] c = "6" -> 6 [] c = "7" -> 7
      [] c = "8" -> 8 [] c = "9" -> 9

RECURSIVE DigitsToNat(_)
DigitsToNat(ds) ==
    IF Len(ds) = 0 THEN 0
    ELSE 10 * DigitsToNat(SubSeq(ds, 1, Len(ds) - 1)) + DigitVal(ds[Len(ds)])

RECURSIVE Pow10(_)
Pow10(k) == IF k = 0 THEN 1 ELSE 10 * Pow10(k - 1)

\* a decimal fraction in lowest decimal terms (den stays a power of ten)
RECURSIVE Norm(_, _)
Norm(num, den) ==
    IF den > 1 /\ num % 10 = 0 THEN Norm(num \div 10, den \div 10)
    ELSE [num |-> num, den |-> den]

\* str::parse::<f32>() on text without exponent, "inf" or "nan":
\*   Sign? ( Digit+ | Digit+ '.' Digit* | Digit* '.' Digit+ )
\* anything else, the empty string and surrounding whitespace included, is Err.
parse_f32(s) ==
    LET signed == Len(s) > 0 /\ s[1] \in {"-", "+"}
        body == IF signed THEN SubSeq(s, 2, Len(s)) ELSE s
        dots == {i \in 1..Len(body) : body[i] = "."}
        wellFormed ==
            /\ \A i \in 1..Len(body) : body[i] \in Digits \cup {"."}
            /\ Cardinality(dots) <= 1
            /\ Len(body) - Cardinality(dots) >= 1
        dot == IF dots = {} THEN Len(body) + 1 ELSE CHOOSE i \in dots : TRUE
        ds == SelectSeq(body, LAMBDA c : c # ".")
        mag == DigitsToNat(ds)
        den == Pow10(IF dots = {} THEN 0 ELSE Len(body) - dot)
    IN  IF ~wellFormed THEN None
        ELSE Some(Norm(IF signed /\ s[1] = "-" THEN 0 - mag ELSE mag, den))

\* gpui::relative(v) and px(v).into(): the two variants of DefiniteLength
relative(q) == [unit |-> "Fraction", num |-> q.num, den |-> q.den]
px(q) == [unit |-> "Absolute", num |-> q.num, den |-> q.den]

\* v / 100.
Div100(q) == Norm(q.num, q.den * 100)

\* the two matches on the parsed number: Ok(v) is a length, Err is None
relative_length(r) == IF IsSome(r) THEN Some(relative(Div100(Unwrap(r)))) ELSE None
px_length(r) == IF IsSome(r) THEN Some(px(Unwrap(r))) ELSE None

\* a value_to_length that forgets the division by 100
value_to_length_no_div(v) ==
    IF EndsWith(v, <<"%">>)
    THEN LET r == parse_f32(trim_end_matches(v, <<"%">>))
         IN  IF IsSome(r) THEN Some(relative(Unwrap(r))) ELSE None
    ELSE px_length(parse_f32(trim_end_matches(v, <<"p", "x">>)))

\* value_to_length: a value ending in % is a fraction, any other is pixels
value_to_length(v) ==
    IF EndsWith(v, <<"%">>)
    THEN relative_length(parse_f32(trim_end_matches(v, <<"%">>)))
    ELSE px_length(parse_f32(trim_end_matches(v, <<"p", "x">>)))

-----------------------------------------------------------------------------
(* Attributes: a Vec<Attribute> is a sequence of [name, value] records *)

Attr(name, v) == [name |-> name, value |-> v]

\* an attr_value that gives the empty string for a missing attribute
attr_value_or_default(as, name) ==
    LET hits == {i \in 1..Len(as) : as[i].name = name}
    IN  IF hits = {} THEN Some(<<>>)
        ELSE Some(as[CHOOSE i \in hits : \A j \in hits : i <= j].value)

\* attr_value: the value of the first attribute with that name
attr_value(as, name) ==
    LET hits == {i \in 1..Len(as) : as[i].name = name}
    IN  IF hits = {} THEN None
        ELSE Some(as[CHOOSE i \in hits : \A j \in hits : i <= j].value)

IsWhitespace(c) == c \in {" ", "\n", "\t"}

\* str::trim
RECURSIVE trim(_)
trim(s) ==
    IF Len(s) > 0 /\ IsWhitespace(s[1]) THEN trim(Tail(s))
    ELSE IF Len(s) > 0 /\ IsWhitespace(s[Len(s)]) THEN trim(SubSeq(s, 1, Len(s) - 1))
    ELSE s

UpperLetters == <<"A", "B", "C", "D", "E", "F", "G", "H", "I", "J", "K", "L", "M",
                  "N", "O", "P", "Q", "R", "S", "T", "U", "V", "W", "X", "Y", "Z">>
LowerLetters == <<"a", "b", "c", "d", "e", "f", "g", "h", "i", "j", "k", "l", "m",
                  "n", "o", "p", "q", "r", "s", "t", "u", "v", "w", "x", "y", "z">>

\* str::to_lowercase
to_lowercase(s) ==
    [i \in 1..Len(s) |->
        IF \E k \in 1..Len(UpperLetters) : UpperLetters[k] = s[i]
        THEN LowerLetters[CHOOSE k \in 1..Len(UpperLetters) : UpperLetters[k] = s[i]]
        ELSE s[i]]

\* str::split(sep): the pieces between the separators, empty pieces included
RECURSIVE split(_, _)
split(s, sep) ==
    LET at == {i \in 1..Len(s) : s[i] = sep}
    IN  IF at = {} THEN <<s>>
        ELSE LET i == CHOOSE k \in at : \A j \in at : k <= j
             IN  <<SubSeq(s, 1, i - 1)>> \o split(SubSeq(s, i + 1, Len(s)), sep)

\* str::split_whitespace: the non-empty pieces between runs of whitespace
RECURSIVE split_whitespace(_)
split_whitespace(s) ==
    LET t == trim(s)
        at == {i \in 1..Len(t) : IsWhitespace(t[i])}
    IN  IF Len(t) = 0 THEN <<>>
        ELSE IF at = {} THEN <<t>>
        ELSE LET i == CHOOSE k \in at : \A j \in at : k <= j
             IN  <<SubSeq(t, 1, i - 1)>> \o split_whitespace(SubSeq(t, i + 1, Len(t)))

\* the loop of style_attrs: each declaration with a ':' is inserted, a later
\* declaration of the same key replacing the earlier one
RECURSIVE insert_decls(_, _)
insert_decls(styles, decls) ==
    IF Len(decls) = 0 THEN styles
    ELSE LET decl == Head(decls)
             colons == {i \in 1..Len(decl) : decl[i] = ":"}
             c == CHOOSE k \in colons : \A j \in colons : k <= j
             key == to_lowercase(trim(SubSeq(decl, 1, c - 1)))
             val == trim(SubSeq(decl, c + 1, Len(decl)))
         IN  IF colons = {} THEN insert_decls(styles, Tail(decls))
             ELSE insert_decls(
                    [k \in DOMAIN styles \cup {key} |->
                        IF k = key THEN val ELSE styles[k]],
                    Tail(decls))

EmptyMap == [k \in {} |-> <<>>]

\* style_attrs: the HashMap of the style attribute's declarations
style_attrs(as) ==
    LET css_text == attr_value(as, "style")
    IN  IF IsNone(css_text) THEN EmptyMap
        ELSE insert_decls(EmptyMap, split(Unwrap(css_text), ";"))

\* styles.get(key).and_then(|v| value_to_length(&v))
style_length(styles, key) ==
    IF key \in DOMAIN styles THEN value_to_length(styles[key]) ELSE None

WIDTH == <<"w", "i", "d", "t", "h">>
HEIGHT == <<"h", "e", "i", "g", "h", "t">>

\* an attr_width_height that reads the style only when both lengths are missing
attr_width_height_both_missing(as) ==
    LET w == attr_value(as, "width")
        h == attr_value(as, "height")
        width == IF IsSome(w) THEN value_to_length(Unwrap(w)) ELSE None
        height == IF IsSome(h) THEN value_to_length(Unwrap(h)) ELSE None
        styles == style_attrs(as)
    IN  IF IsNone(width) /\ IsNone(height)
        THEN <<style_length(styles, WIDTH), style_length(styles, HEIGHT)>>
        ELSE <<width, height>>

\* attr_value(attrs, name).and_then(|v| value_to_length(&v))
attr_length(v) == IF IsSome(v) THEN value_to_length(Unwrap(v)) ELSE None

\* the second half of attr_width_height: a length the attributes did not give
\* is read from the style declarations
style_width_height(width, height, styles) ==
    IF IsNone(width) \/ IsNone(height)
    THEN <<IF IsNone(width) THEN style_length(styles, WIDTH) ELSE width,
           IF IsNone(height) THEN style_length(styles, HEIGHT) ELSE height>>
    ELSE <<width, height>>

attr_width_height(as) ==
    style_width_height(attr_length(attr_value(as, "width")),
                       attr_length(attr_value(as, "height")),
                       style_attrs(as))

-----------------------------------------------------------------------------
(* The DOM tree (markup5ever_rcdom::Node): data and children *)

Text(contents) ==
    [kind |-> "Text", name |-> "", attrs |-> <<>>, contents |-> contents,
     children |-> <<>>]

Element(name, as, children) ==
    [kind |-> "Element", name |-> name, attrs |-> as, contents |-> <<>>,
     children |-> children]

Document(children) ==
    [kind |-> "Document", name |-> "", attrs |-> <<>>, contents |-> <<>>,
     children |-> children]

Comment(contents) ==
    [kind |-> "Comment", name |-> "", attrs |-> <<>>, contents |-> contents,
     children |-> <<>>]

IsElement(nd, names) == nd.kind = "Element" /\ nd.name \in names

BLOCK_ELEMENTS ==
    {"html", "body", "head", "address", "article", "aside", "blockquote",
     "details", "summary", "dialog", "div", "dl", "fieldset", "figcaption",
     "figure", "footer", "form", "h1", "h2", "h3", "h4", "h5", "h6", "header",
     "hr", "main", "nav", "ol", "p", "pre", "section", "table", "ul", "style",
     "script"}

\* is_emoji_class: the class attribute has the token emoji or emoji-only
has_emoji_token(tokens) ==
    \E i \in 1..Len(tokens) :
        tokens[i] \in {<<"e", "m", "o", "j", "i">>,
                       <<"e", "m", "o", "j", "i", "-", "o", "n", "l", "y">>}

\* an is_emoji_class that compares the whole class attribute
is_emoji_class_unsplit(as) ==
    /\ IsSome(attr_value(as, "class"))
    /\ Unwrap(attr_value(as, "class")) \in
          {<<"e", "m", "o", "j", "i">>,
           <<"e", "m", "o", "j", "i", "-", "o", "n", "l", "y">>}

is_emoji_class(as) ==
    IF IsNone(attr_value(as, "class")) THEN FALSE
    ELSE has_emoji_token(split_whitespace(Unwrap(attr_value(as, "class"))))

-----------------------------------------------------------------------------
(* The document model (text/node.rs): inline nodes, paragraphs, blocks.  A
   Paragraph is the sequence of its children. *)

InlineNode(text, marks) == [text |-> text, image |-> None, marks |-> marks]

InlineImage(image) == [text |-> <<>>, image |-> Some(image), marks |-> <<>>]

\* a (Range<usize>, TextMark) pair
Mark(start, end, style) == [start |-> start, end |-> end, style |-> style]

TextMark(kind) == [kind |-> kind, link |-> None]

LinkMark(url, title) == [kind |-> "link", link |-> Some([url |-> url, title |-> title])]

\* the ImageNode of an img element, (width, height) being its lengths
image_node(as, lengths) ==
    [url |-> Unwrap(attr_value(as, "src")),
     link |-> None,
     alt |-> attr_value(as, "alt"),
     title |-> attr_value(as, "title"),
     width |-> lengths[1],
     height |-> lengths[2],
     is_inline |-> is_emoji_class(as)]

ImageNode(as) == image_node(as, attr_width_height(as))

\* Paragraph::push_str, push, push_image, merge
push_str(p, text) == Append(p, InlineNode(text, <<>>))
push(p, inline) == Append(p, inline)
push_image(p, image) == Append(p, InlineImage(image))
merge(p, other) == p \o other

\* Paragraph::is_empty: no child has text or an image
is_empty(p) == \A i \in DOMAIN p : Len(p[i].text) = 0 /\ IsNone(p[i].image)

\* Paragraph::text_len: the summed length of the children's text
RECURSIVE text_len(_)
text_len(p) == IF Len(p) = 0 THEN 0 ELSE Len(Head(p).text) + text_len(Tail(p))

\* Paragraph::is_image: the paragraph holds images and nothing else
is_image(p) == p # <<>> /\ \A i \in DOMAIN p : IsSome(p[i].image)

Root(children) == [type |-> "Root", children |-> children]
ParagraphBlock(p) == [type |-> "Paragraph", paragraph |-> p]
Heading(level, p) == [type |-> "Heading", level |-> level, paragraph |-> p]
List(children, ordered) == [type |-> "List", children |-> children, ordered |-> ordered]
ListItem(children) ==
    [type |-> "ListItem", children |-> children, spread |-> FALSE, checked |-> None]
Blockquote(children) == [type |-> "Blockquote", children |-> children]
CodeBlock(code, lang) == [type |-> "CodeBlock", code |-> code, lang |-> lang]
Break == [type |-> "Break", html |-> TRUE]
TableBlock(rows) == [type |-> "Table", children |-> rows]
TableRow(cells) == [children |-> cells]
TableCell(p, width) == [children |-> p, width |-> width]
Unknown == [type |-> "Unknown"]

-----------------------------------------------------------------------------
(* parse_paragraph: the inline builder *)

\* merge_child_text: the child's text is appended; each child mark is pushed
\* with range (range.start + offset .. new_text.len() + offset)
merge_child_text_end_unshifted(text, marks, new_text, new_marks) ==
    [text |-> text \o new_text,
     marks |-> marks \o
        [i \in 1..Len(new_marks) |->
            Mark(new_marks[i].start + Len(text), Len(new_text), new_marks[i].style)]]

merge_child_text(text, marks, new_text, new_marks) ==
    [text |-> text \o new_text,
     marks |-> marks \o
        [i \in 1..Len(new_marks) |->
            Mark(new_marks[i].start + Len(text),
                 Len(new_text) + Len(text),
                 new_marks[i].style)]]

StyleOf(name) ==
    CASE name \in {"em", "i"} -> "italic"
      [] name \in {"strong", "b"} -> "bold"
      [] name \in {"del", "s"} -> "strikethrough"
      [] name = "code" -> "code"

\* the mark an inline element pushes over its whole text (0..text.len()), after
\* the marks of its children c: the style of em..code, the link of a, and none
\* for any other node
own_marks_of_children(nd, c) == c.marks

own_marks(nd, c) ==
    CASE IsElement(nd, {"em", "i", "strong", "b", "del", "s", "code"}) ->
            Append(c.marks, Mark(0, Len(c.text), TextMark(StyleOf(nd.name))))
      [] IsElement(nd, {"a"}) ->
            Append(c.marks,
                   Mark(0, Len(c.text),
                        LinkMark(IF IsSome(attr_value(nd.attrs, "href"))
                                 THEN Unwrap(attr_value(nd.attrs, "href")) ELSE <<>>,
                                 attr_value(nd.attrs, "title"))))
      [] OTHER -> c.marks

\* paragraph.push(InlineNode::new(&text).marks(marks.clone())); (text, marks)
push_inline_dropped(para, text, marks) ==
    [text |-> text, marks |-> marks, paragraph |-> para]

push_inline(para, text, marks) ==
    [text |-> text, marks |-> marks, paragraph |-> push(para, InlineNode(text, marks))]

\* the end of every arm that loops over the children: c is the loop's result
inline_element(para, nd, c) == push_inline(para, c.text, own_marks(nd, c))

RECURSIVE parse_paragraph(_, _)
RECURSIVE parse_paragraph_children(_, _, _, _)
RECURSIVE parse_paragraph_rest(_, _, _, _)
RECURSIVE parse_paragraph_merged(_, _, _)

\* the loop after one child returned r: its text and marks are merged, and the
\* next child is parsed on the child_paragraph r left
parse_paragraph_merged(children, child_paragraph, m) ==
    parse_paragraph_children(children, child_paragraph, m.text, m.marks)

parse_paragraph_rest(children, text, marks, r) ==
    parse_paragraph_merged(children, r.paragraph,
                           merge_child_text(text, marks, r.text, r.marks))

\* for child in node.children: parse_paragraph(&mut child_paragraph, child),
\* then merge_child_text(&mut text, &mut marks, ..)
parse_paragraph_children(children, child_paragraph, text, marks) ==
    IF Len(children) = 0
    THEN [child_paragraph |-> child_paragraph, text |-> text, marks |-> marks]
    ELSE parse_paragraph_rest(Tail(children), text, marks,
                              parse_paragraph(child_paragraph, Head(children)))

\* the result is the returned (text, marks) and the paragraph as the call leaves it
parse_paragraph(para, nd) ==
    CASE nd.kind = "Text" ->
            [text |-> nd.contents, marks |-> <<>>,
             paragraph |-> push_str(para, nd.contents)]
      [] IsElement(nd, {"img"}) ->
            IF IsNone(attr_value(nd.attrs, "src"))
            THEN [text |-> <<>>, marks |-> <<>>, paragraph |-> para]
            ELSE [text |-> <<>>, marks |-> <<>>,
                  paragraph |-> push_image(para, ImageNode(nd.attrs))]
      [] OTHER -> \* em..code, a, any other element, any other kind of node
            inline_element(para, nd,
                           parse_paragraph_children(nd.children, <<>>, <<>>, <<>>))

-----------------------------------------------------------------------------
(* Tables *)

\* for child in node.children: parse_paragraph(&mut paragraph, child), the loop
\* of parse_table_cell and of the heading branch of parse_node
RECURSIVE parse_paragraph_each(_, _)
parse_paragraph_each(children, para) ==
    IF Len(children) = 0 THEN para
    ELSE parse_paragraph_each(Tail(children), parse_paragraph(para, Head(children)).paragraph)

\* parse_table_cell: the cell's paragraph and its width are pushed to the row
parse_table_cell(row, nd) ==
    Append(row, TableCell(parse_paragraph_each(nd.children, <<>>),
                          attr_width_height(nd.attrs)[1]))

IsCell(nd) == nd.kind = "Element" /\ nd.name \in {"td", "th"}

\* the loop of parse_table_row over the row's children: a td or th with no
\* child nodes is skipped, any other cell is counted and parsed
RECURSIVE parse_row_children(_, _)
parse_row_children(children, row) ==
    IF Len(children) = 0 THEN row
    ELSE LET child == Head(children)
         IN  IF IsCell(child) /\ Len(child.children) > 0
             THEN parse_row_children(Tail(children), parse_table_cell(row, child))
             ELSE parse_row_children(Tail(children), row)

\* if count > 0 { table.children.push(row) }
push_row(rows, row) == IF Len(row) > 0 THEN Append(rows, TableRow(row)) ELSE rows

\* a parse_table_row that pushes the row whatever the count
parse_table_row_always_push(rows, nd) ==
    Append(rows, TableRow(parse_row_children(nd.children, <<>>)))

\* a parse_table_row that drops the row when one of its cells is empty
parse_table_row_drop_on_empty_cell(rows, nd) ==
    LET row == parse_row_children(nd.children, <<>>)
    IN  IF Len(row) > 0
           /\ ~\E i \in 1..Len(nd.children) :
                 IsCell(nd.children[i]) /\ Len(nd.children[i].children) = 0
        THEN Append(rows, TableRow(row))
        ELSE rows

\* parse_table_row: the row is pushed when count > 0; count is the number of
\* cells parsed, which is the length of the row
parse_table_row(rows, nd) == push_row(rows, parse_row_children(nd.children, <<>>))

RECURSIVE parse_table_rows(_, _)
parse_table_rows(candidates, rows) ==
    IF Len(candidates) = 0 THEN rows
    ELSE parse_table_rows(Tail(candidates), parse_table_row(rows, Head(candidates)))

\* the loop of the table branch: the children of a tbody or thead are row
\* candidates, any other child is a row candidate itself
RECURSIVE parse_table_children(_, _)
parse_table_children(children, rows) ==
    IF Len(children) = 0 THEN rows
    ELSE LET child == Head(children)
         IN  parse_table_children(
                Tail(children),
                parse_table_rows(
                    IF child.kind = "Element" /\ child.name \in {"tbody", "thead"}
                    THEN child.children ELSE <<child>>,
                    rows))

-----------------------------------------------------------------------------
(* Code blocks *)

\* collect_text_content / collect_text_recursive
RECURSIVE collect_text_content(_)
RECURSIVE collect_text_children(_)
collect_text_children(children) ==
    IF Len(children) = 0 THEN <<>>
    ELSE collect_text_content(Head(children)) \o collect_text_children(Tail(children))

collect_text_content(nd) ==
    IF nd.kind = "Text" THEN nd.contents ELSE collect_text_children(nd.children)

LANGUAGE_PREFIX == <<"l", "a", "n", "g", "u", "a", "g", "e", "-">>
LANG_PREFIX == <<"l", "a", "n", "g", "-">>

\* str::strip_prefix
strip_prefix(s, prefix) ==
    IF StartsWith(s, prefix) THEN Some(SubSeq(s, Len(prefix) + 1, Len(s))) ELSE None

RECURSIVE language_of_tokens(_)
language_of_tokens(tokens) ==
    IF Len(tokens) = 0 THEN None
    ELSE IF IsSome(strip_prefix(Head(tokens), LANGUAGE_PREFIX))
    THEN strip_prefix(Head(tokens), LANGUAGE_PREFIX)
    ELSE IF IsSome(strip_prefix(Head(tokens), LANG_PREFIX))
    THEN strip_prefix(Head(tokens), LANG_PREFIX)
    ELSE language_of_tokens(Tail(tokens))

\* an extract_code_language that scans the class tokens from the last one
extract_code_language_last_token(as) ==
    LET class == attr_value(as, "class")
        tokens == IF IsSome(class) THEN split_whitespace(Unwrap(class)) ELSE <<>>
    IN  language_of_tokens([i \in 1..Len(tokens) |-> tokens[Len(tokens) + 1 - i]])

\* extract_code_language
extract_code_language(as) ==
    LET class == attr_value(as, "class")
    IN  IF IsNone(class) THEN None
        ELSE language_of_tokens(split_whitespace(Unwrap(class)))

\* the loop of extract_pre_code over the direct children: the first code
\* element whose text is not empty decides
RECURSIVE extract_from_code_child(_)
RECURSIVE code_child_or_next(_, _)
code_child_or_next(children, code_text) ==
    IF IsElement(Head(children), {"code"}) /\ Len(code_text) > 0
    THEN Some([code |-> code_text,
               lang |-> extract_code_language(Head(children).attrs)])
    ELSE extract_from_code_child(Tail(children))

extract_from_code_child(children) ==
    IF Len(children) = 0 THEN None
    ELSE code_child_or_next(children, collect_text_content(Head(children)))

\* if !text.is_empty() { Some((text, None)) } else { None }
text_or_none(text) ==
    IF Len(text) > 0 THEN Some([code |-> text, lang |-> None]) ELSE None

\* the code child's result, else the text of the pre itself
code_or_text(nd, found) ==
    IF IsSome(found) THEN found ELSE text_or_none(collect_text_content(nd))

\* an extract_pre_code without the fallback to the text of the pre itself
extract_pre_code_code_only(nd) == extract_from_code_child(nd.children)

\* extract_pre_code: the code child decides, else the text of the pre itself
extract_pre_code(nd) == code_or_text(nd, extract_from_code_child(nd.children))

-----------------------------------------------------------------------------
(* parse_node: the block builder.  The result is the returned Option<BlockNode>
   together with the accumulator as the call leaves it. *)

\* the prefix children, and the new block wrapped in a Root with them when
\* they are not empty
WithFlushed_in_root(children, b) == Some(Root(Append(children, b)))

WithFlushed(children, b) ==
    IF Len(children) > 0 THEN Some(Root(Append(children, b))) ELSE Some(b)

\* a consume_paragraph that pushes the paragraph without the is_empty test
consume_paragraph_unchecked(children, para) ==
    [children |-> Append(children, ParagraphBlock(para)), paragraph |-> <<>>]

\* consume_paragraph: a paragraph that is not empty is taken and pushed
consume_paragraph(children, para) ==
    IF is_empty(para) THEN [children |-> children, paragraph |-> para]
    ELSE [children |-> Append(children, ParagraphBlock(para)), paragraph |-> <<>>]

HeadingLevel(name) ==
    CASE name = "h1" -> 1 [] name = "h2" -> 2 [] name = "h3" -> 3
      [] name = "h4" -> 4 [] name = "h5" -> 5 [] name = "h6" -> 6

RECURSIVE parse_node(_, _)
RECURSIVE consume_children_loop(_, _, _)
RECURSIVE consume_children_pushed(_, _, _)
RECURSIVE consume_children_flushed(_, _)
RECURSIVE parse_children_loop(_, _, _)
RECURSIVE parse_children_pushed(_, _, _)
RECURSIVE list_item_loop(_, _)
RECURSIVE list_item_child(_, _, _)

\* the loop of consume_children_nodes: the accumulator is flushed after each child
consume_children_loop(kids, children, para) ==
    IF Len(kids) = 0 THEN [paragraph |-> para, children |-> children]
    ELSE consume_children_pushed(Tail(kids), children, parse_node(Head(kids), para))

\* after the child returned r: its block is pushed, then consume_paragraph
consume_children_pushed(kids, children, r) ==
    IF r.block # None
    THEN consume_children_flushed(
            kids, consume_paragraph(Append(children, Unwrap(r.block)), r.paragraph))
    ELSE consume_children_flushed(kids, consume_paragraph(children, r.paragraph))

consume_children_flushed(kids, c) ==
    consume_children_loop(kids, c.children, c.paragraph)

consume_children_nodes(nd, para) ==
    consume_children_flushed(nd.children, consume_paragraph(<<>>, para))

\* the loop of the generic block branch and of the pre fallback, with the
\* consume_paragraph that follows it: the children are parsed one after the
\* other on the same accumulator, which is flushed after the last one
parse_children_unflushed(kids, children, para) ==
    IF Len(kids) = 0 THEN [children |-> children, paragraph |-> para]
    ELSE parse_children_pushed(Tail(kids), children, parse_node(Head(kids), para))

parse_children_loop(kids, children, para) ==
    IF Len(kids) = 0 THEN consume_paragraph(children, para)
    ELSE parse_children_pushed(Tail(kids), children, parse_node(Head(kids), para))

\* after the child returned r: its block is pushed, the accumulator goes on
parse_children_pushed(kids, children, r) ==
    IF r.block # None
    THEN parse_children_loop(kids, Append(children, Unwrap(r.block)), r.paragraph)
    ELSE parse_children_loop(kids, children, r.paragraph)

\* the last child is a Paragraph: child_paragraph is merged into it; else it is
\* pushed as a new Paragraph
merge_or_push(children, child_paragraph) ==
    IF Len(children) > 0 /\ children[Len(children)].type = "Paragraph"
    THEN [children EXCEPT ![Len(children)] =
            ParagraphBlock(merge(children[Len(children)].paragraph, child_paragraph))]
    ELSE Append(children, ParagraphBlock(child_paragraph))

\* the loop of the li branch: each child gets a fresh child_paragraph; text it
\* leaves there is merged into a last child that is a Paragraph, or pushed
list_item_loop(kids, children) ==
    IF Len(kids) = 0 THEN children
    ELSE list_item_child(Tail(kids), children, parse_node(Head(kids), <<>>))

\* after the child returned r, r.paragraph being its child_paragraph
list_item_child(kids, children, r) ==
    IF r.block # None
    THEN IF text_len(r.paragraph) > 0
         THEN list_item_loop(kids, merge_or_push(Append(children, Unwrap(r.block)),
                                                 r.paragraph))
         ELSE list_item_loop(kids, Append(children, Unwrap(r.block)))
    ELSE IF text_len(r.paragraph) > 0
         THEN list_item_loop(kids, merge_or_push(children, r.paragraph))
         ELSE list_item_loop(kids, children)

\* the element names that parse_node matches before the block elements
NAMED_ELEMENTS ==
    {"br", "h1", "h2", "h3", "h4", "h5", "h6", "img", "ul", "ol", "li", "table",
     "blockquote", "pre", "style", "script"}

\* the end of the branches that flushed the accumulator into c and built the
\* block b: Root of the flushed children and b, or b alone
flushed_block(c, b) == [paragraph |-> c.paragraph, block |-> WithFlushed(c.children, b)]

\* the second consume_paragraph of the table branch, after the rows are parsed
consume_again(c) == consume_paragraph(c.children, c.paragraph)

\* the end of the img branch: an inline image joins the accumulator, a block
\* image flushes it and is a Paragraph of its own
image_block(para, image) ==
    IF image.is_inline
    THEN [paragraph |-> push_image(para, image), block |-> None]
    ELSE flushed_block(consume_paragraph(<<>>, para),
                       ParagraphBlock(push_image(<<>>, image)))

\* the end of the generic block branch and of the pre fallback
root_or_none(d) ==
    [paragraph |-> d.paragraph,
     block |-> IF d.children = <<>> THEN None ELSE Some(Root(d.children))]

\* the end of the pre branch: c is the flushed accumulator, code the result of
\* extract_pre_code
code_block(nd, c, code) ==
    IF IsSome(code)
    THEN flushed_block(c, CodeBlock(Unwrap(code).code, Unwrap(code).lang))
    ELSE root_or_none(parse_children_loop(nd.children, c.children, c.paragraph))

\* the end of the inline branch: r is the result of parse_paragraph
image_or_inline(r) ==
    IF is_image(r.paragraph)
    THEN [paragraph |-> <<>>, block |-> Some(ParagraphBlock(r.paragraph))]
    ELSE [paragraph |-> r.paragraph, block |-> None]

\* the result is [paragraph: the accumulator as the call leaves it,
\*                block: the returned Option<BlockNode>]
parse_node(nd, para) ==
    CASE nd.kind = "Text" ->
            [paragraph |-> IF Len(nd.contents) > 0 THEN push_str(para, nd.contents)
                           ELSE para,
             block |-> None]
      [] nd.kind = "Document" ->
            LET c == consume_children_nodes(nd, para)
            IN  [paragraph |-> c.paragraph, block |-> Some(Root(c.children))]
      [] nd.kind \notin {"Text", "Document", "Element"} ->
            [paragraph |-> para, block |-> None]
      [] IsElement(nd, {"br"}) ->
            [paragraph |-> para, block |-> Some(Break)]
      [] IsElement(nd, {"h1", "h2", "h3", "h4", "h5", "h6"}) ->
            flushed_block(consume_paragraph(<<>>, para),
                          Heading(HeadingLevel(nd.name),
                                  parse_paragraph_each(nd.children, <<>>)))
      [] IsElement(nd, {"img"}) ->
            IF IsNone(attr_value(nd.attrs, "src"))
            THEN [paragraph |-> para, block |-> None]
            ELSE image_block(para, ImageNode(nd.attrs))
      [] IsElement(nd, {"ul", "ol"}) ->
            LET c == consume_children_nodes(nd, para)
            IN  [paragraph |-> c.paragraph,
                 block |-> Some(List(c.children, nd.name = "ol"))]
      [] IsElement(nd, {"li"}) ->
            LET c == consume_paragraph(<<>>, para)
                d == consume_paragraph(list_item_loop(nd.children, c.children),
                                       c.paragraph)
            IN  [paragraph |-> d.paragraph, block |-> Some(ListItem(d.children))]
      [] IsElement(nd, {"table"}) ->
            flushed_block(consume_again(consume_paragraph(<<>>, para)),
                          TableBlock(parse_table_children(nd.children, <<>>)))
      [] IsElement(nd, {"blockquote"}) ->
            LET c == consume_children_nodes(nd, para)
            IN  [paragraph |-> c.paragraph, block |-> Some(Blockquote(c.children))]
      [] IsElement(nd, {"pre"}) ->
            code_block(nd, consume_paragraph(<<>>, para), extract_pre_code(nd))
      [] IsElement(nd, {"style", "script"}) ->
            [paragraph |-> para, block |-> None]
      [] IsElement(nd, BLOCK_ELEMENTS \ NAMED_ELEMENTS) ->
            LET c == consume_paragraph(<<>>, para)
            IN  root_or_none(parse_children_loop(nd.children, c.children, c.paragraph))
      [] OTHER -> \* others as inline
            image_or_inline(parse_paragraph(para, nd))

-----------------------------------------------------------------------------
(* value_to_length applied to every short string over LengthChars *)

MaxValueLen == 4

LengthChars == {"0", "1", "5", ".", "-", "%", "p", "x", "m"}

RECURSIVE StringsUpTo(_, _)
StringsUpTo(chars, n) ==
    IF n = 0 THEN {<<>>}
    ELSE LET shorter == StringsUpTo(chars, n - 1)
         IN  shorter \cup {Append(s, c) : s \in shorter, c \in chars}

NoDom == [kind |-> "None"]

InitLength ==
    /\ pc = "value_to_length"
    /\ value \in StringsUpTo(LengthChars, MaxValueLen)
    /\ length = None
    /\ node = NoDom /\ paragraph = <<>> /\ block = None
    /\ attrs = <<>> /\ size = <<None, None>>
    /\ NoParse /\ NoImage /\ NoInline /\ NoPair

ValueToLength ==
    /\ pc = "value_to_length"
    /\ length' = value_to_length(value)
    /\ pc' = "returned"
    /\ UNCHANGED <<value, domVars, attrVars, parseVars, imageVars, inlineVars, pairVars>>

NextLength == ValueToLength

SpecLength == InitLength /\ [][NextLength]_vars


(* C6: every relative Length made from a value ending in % is a fraction
   within [0,1] (the claim as stated). *)
C6_FractionInUnitInterval ==
    (pc = "returned" /\ EndsWith(value, <<"%">>) /\ IsSome(length)) =>
        /\ Unwrap(length).unit = "Fraction"
        /\ 0 <= Unwrap(length).num
        /\ Unwrap(length).num <= Unwrap(length).den

(* C6 (amended): a value ending in % that yields a length yields the relative
   length prefix/100, where prefix is the number left of the % signs; that
   fraction lies within [0,1] exactly when 0 <= prefix <= 100. *)
C6_FractionIsPrefixOver100 ==
    (pc = "returned" /\ EndsWith(value, <<"%">>) /\ IsSome(length)) =>
        LET l == Unwrap(length)
            prefix == Unwrap(parse_f32(SelectSeq(value, LAMBDA c : c # "%")))
        IN  /\ l.unit = "Fraction"
            /\ l.num * prefix.den * 100 = prefix.num * l.den
            /\ (0 <= l.num /\ l.num <= l.den)
                   <=> (0 <= prefix.num /\ prefix.num <= 100 * prefix.den)

C6_Witness ==
    /\ pc = "returned"
    /\ EndsWith(value, <<"%">>)
    /\ IsSome(length)
    /\ Unwrap(length).num > Unwrap(length).den

\* the text is a number: Sign? (Digit+ | Digit+ '.' Digit* | Digit* '.' Digit+)
IsNumber(s) ==
    LET body == IF Len(s) > 0 /\ s[1] \in {"-", "+"} THEN SubSeq(s, 2, Len(s)) ELSE s
    IN  /\ \A i \in 1..Len(body) : body[i] \in Digits \cup {"."}
        /\ Cardinality({i \in 1..Len(body) : body[i] = "."}) <= 1
        /\ \E i \in 1..Len(body) : body[i] \in Digits

\* the text with one trailing suffix removed
StripOne(s, suffix) == SubSeq(s, 1, Len(s) - Len(suffix))

(* C7: value_to_length is total; a number followed by one % gives relative
   n/100, a number with one optional trailing px gives pixels, and any other
   text (other units, repeated suffixes) gives no length. *)
C7_OneSuffixOnly ==
    pc = "returned" =>
        IF EndsWith(value, <<"%">>) /\ IsNumber(StripOne(value, <<"%">>))
        THEN length = Some(relative(Div100(Unwrap(parse_f32(StripOne(value, <<"%">>))))))
        ELSE IF EndsWith(value, <<"p", "x">>) /\ IsNumber(StripOne(value, <<"p", "x">>))
        THEN length = Some(px(Unwrap(parse_f32(StripOne(value, <<"p", "x">>)))))
        ELSE IF IsNumber(value)
        THEN length = Some(px(Unwrap(parse_f32(value))))
        ELSE length = None

-----------------------------------------------------------------------------
(* attr_width_height applied to elements with and without width, height and
   style attributes *)

\* values of a width or height attribute: 5, 5px, 50%, auto-like text, empty
AttrLengthValues ==
    {<<"5">>, <<"1", "0", "p", "x">>, <<"5", "0", "%">>, <<"m">>, <<>>}

StyleTexts ==
    { <<>>,
      WIDTH \o <<":", "1", "p", "x">>,
      WIDTH \o <<":", " ", "1", "p", "x", ";", " ">> \o HEIGHT \o <<":", " ", "2", "0", "%">>,
      <<"H", "E", "I", "G", "H", "T", ":", "2">>,
      WIDTH,
      HEIGHT \o <<":", "m">>,
      <<"m", ":", "1", ";">> \o WIDTH \o <<":", "3">>,
      WIDTH \o <<":", "1", ";">> \o WIDTH \o <<":", "4">>,
      <<" ">> \o WIDTH \o <<" ", ":", " ", "1", "p", "x", " ", ";">>,
      HEIGHT \o <<":", "7", ";">> \o WIDTH \o <<":", "m", ":", "1">> }

OptionalAttr(name, values) == {<<>>} \cup {<<Attr(name, v)>> : v \in values}

InitAttr ==
    /\ pc = "attr_width_height"
    /\ \E w \in OptionalAttr("width", AttrLengthValues),
          h \in OptionalAttr("height", AttrLengthValues),
          st \in OptionalAttr("style", StyleTexts) :
            attrs = w \o st \o h
    /\ size = <<None, None>>
    /\ NoParse /\ NoImage /\ NoInline /\ NoPair
    /\ value = <<>> /\ length = None
    /\ node = NoDom /\ paragraph = <<>> /\ block = None

AttrWidthHeight ==
    /\ pc = "attr_width_height"
    /\ size' = attr_width_height(attrs)
    /\ pc' = "returned"
    /\ UNCHANGED <<attrs, domVars, lenVars, parseVars, imageVars, inlineVars, pairVars>>

NextAttr == AttrWidthHeight

SpecAttr == InitAttr /\ [][NextAttr]_vars

\* the length the style attribute declares for a key, if it declares one
StyleDeclared(as, key) == style_length(style_attrs(as), key)

(* C5: width and height are resolved independently; when the element has the
   attribute the result is value_to_length of the attribute and the style
   declaration is not used; style is used only when the attribute is absent
   (the claim as stated). *)
C5_StyleOnlyWhenAttrAbsent ==
    pc = "returned" =>
        /\ size[1] = IF IsSome(attr_value(attrs, "width"))
                     THEN value_to_length(Unwrap(attr_value(attrs, "width")))
                     ELSE StyleDeclared(attrs, WIDTH)
        /\ size[2] = IF IsSome(attr_value(attrs, "height"))
                     THEN value_to_length(Unwrap(attr_value(attrs, "height")))
                     ELSE StyleDeclared(attrs, HEIGHT)

\* the attribute's length, when the attribute is present and parses
AttrDeclared(as, name) ==
    IF IsSome(attr_value(as, name)) THEN value_to_length(Unwrap(attr_value(as, name)))
    ELSE None

(* C5 (amended): width and height are resolved independently; when the
   attribute is present and parses to a length the result is that length and
   the style declaration is not used; the style declaration is used when the
   attribute is absent or does not parse to a length. *)
C5_StyleWhenAttrGivesNoLength ==
    pc = "returned" =>
        /\ size[1] = IF IsSome(AttrDeclared(attrs, "width"))
                     THEN AttrDeclared(attrs, "width")
                     ELSE StyleDeclared(attrs, WIDTH)
        /\ size[2] = IF IsSome(AttrDeclared(attrs, "height"))
                     THEN AttrDeclared(attrs, "height")
                     ELSE StyleDeclared(attrs, HEIGHT)

\* both the attribute and the style declare a width, and they differ; the
\* height comes from the style alone
C5_Witness ==
    /\ pc = "returned"
    /\ IsSome(AttrDeclared(attrs, "width"))
    /\ IsSome(StyleDeclared(attrs, WIDTH))
    /\ AttrDeclared(attrs, "width") # StyleDeclared(attrs, WIDTH)
    /\ IsNone(attr_value(attrs, "height"))
    /\ IsSome(size[2])
    /\ size[1] = AttrDeclared(attrs, "width")

-----------------------------------------------------------------------------
(* parse_node applied to the documents html5ever builds for small bodies:
   Document > html > (head, body > forest) *)

\* the most nodes of a body over the full alphabet, and over the core alphabet
MaxNodes == 2
MaxCoreNodes == 3

SRC == <<Attr("src", <<"u">>)>>
EMOJI == <<Attr("class", <<"e", "m", "o", "j", "i">>)>>

(* A body is a shape, the bracket word of a forest with one "(" ... ")" pair
   for each node, and a tag for each node in document order. *)

\* text, line break, block image, emoji image, image without src, comment,
\* style and script elements with their raw text, a table of one cell
LeafTags ==
    {"text", "br", "img", "emoji", "nosrc", "comment", "style", "script", "table"}

ContainerTags == {"div", "h2", "ul", "li", "blockquote", "pre", "code", "span", "em"}

\* the core alphabet
CoreLeafTags == {"text", "br", "img", "emoji", "style"}
CoreContainerTags == {"div", "li", "blockquote", "h2", "span"}

\* <<shapes of 0 nodes, shapes of 1 node, ..., shapes of n nodes>>
RECURSIVE ShapesBySize(_)
ShapesBySize(n) ==
    IF n = 0 THEN <<{<<>>}>>
    ELSE LET tab == ShapesBySize(n - 1)
         IN  Append(tab,
                UNION { {<<"(">> \o inner \o <<")">> \o rest :
                            inner \in tab[k], rest \in tab[n - k + 1]}
                        : k \in 1..n })

Shapes(n) == UNION {ShapesBySize(n)[k] : k \in 1..(n + 1)}

NodeCount(shape) == Len(shape) \div 2

\* the position in the shape of the "(" of the j-th node
RECURSIVE OpenAt(_, _, _)
OpenAt(shape, j, i) ==
    IF shape[i] = "(" THEN (IF j = 1 THEN i ELSE OpenAt(shape, j - 1, i + 1))
    ELSE OpenAt(shape, j, i + 1)

\* a node with children carries a container tag
WellTagged(shape, tags, containers) ==
    \A j \in 1..NodeCount(shape) :
        shape[OpenAt(shape, j, 1) + 1] = "(" => tags[j] \in containers

Leaf(tag) ==
    CASE tag = "text" -> Text(<<"t">>)
      [] tag = "br" -> Element("br", <<>>, <<>>)
      [] tag = "img" -> Element("img", SRC, <<>>)
      [] tag = "emoji" -> Element("img", SRC \o EMOJI, <<>>)
      [] tag = "nosrc" -> Element("img", <<>>, <<>>)
      [] tag = "comment" -> Comment(<<"c">>)
      [] tag = "style" -> Element("style", <<>>, <<Text(<<"t">>)>>)
      [] tag = "script" -> Element("script", <<>>, <<Text(<<"t">>)>>)
      [] tag = "table" ->
            Element("table", <<>>,
                <<Element("tbody", <<>>,
                    <<Element("tr", <<>>,
                        <<Element("td", <<>>, <<Text(<<"t">>)>>)>>)>>)>>)

\* the nodes written from position i of the shape up to the closing ")" or the
\* end; j is the number of the next node
RECURSIVE Decode(_, _, _, _)
Decode(shape, tags, i, j) ==
    IF i > Len(shape) \/ shape[i] = ")" THEN [nds |-> <<>>, next |-> i + 1, j |-> j]
    ELSE LET inner == Decode(shape, tags, i + 1, j + 1)
             rest == Decode(shape, tags, inner.next, inner.j)
             nd == IF tags[j] \in LeafTags THEN Leaf(tags[j])
                   ELSE Element(tags[j], <<>>, inner.nds)
         IN  [nds |-> <<nd>> \o rest.nds, next |-> rest.next, j |-> rest.j]

\* every text node gets the letter of its place in document order, so that
\* each text of the output is traced to its node
RECURSIVE Relabel(_, _)
RECURSIVE RelabelEach(_, _)
Relabel(nd, k) ==
    IF nd.kind = "Text"
    THEN [nd |-> Text(<<LowerLetters[k]>>), next |-> k + 1]
    ELSE LET r == RelabelEach(nd.children, k)
         IN  [nd |-> [nd EXCEPT !.children = r.nds], next |-> r.next]

RelabelEach(nds, k) ==
    IF Len(nds) = 0 THEN [nds |-> <<>>, next |-> k]
    ELSE LET r == Relabel(Head(nds), k)
             rest == RelabelEach(Tail(nds), r.next)
         IN  [nds |-> <<r.nd>> \o rest.nds, next |-> rest.next]

Nodes(shape, tags) == RelabelEach(Decode(shape, tags, 1, 1).nds, 1).nds

HtmlDocument(body) ==
    Document(<<Element("html", <<>>,
                 <<Element("head", <<>>, <<>>), Element("body", <<>>, body)>>)>>)

\* the documents whose body has at most n nodes over the alphabet
IsDocument(nd, n, leaves, containers) ==
    \E shape \in Shapes(n) :
        \E tags \in [1..NodeCount(shape) -> leaves \cup containers] :
            /\ WellTagged(shape, tags, containers)
            /\ nd = HtmlDocument(Nodes(shape, tags))

Init ==
    /\ pc = "parse_node"
    /\ \/ IsDocument(node, MaxNodes, LeafTags, ContainerTags)
       \/ IsDocument(node, MaxCoreNodes, CoreLeafTags, CoreContainerTags)
    /\ paragraph = <<>>
    /\ block = None
    /\ value = <<>> /\ length = None
    /\ attrs = <<>> /\ size = <<None, None>>
    /\ NoParse /\ NoImage /\ NoInline /\ NoPair

\* parse_node(&dom.document, &mut paragraph, cx)
\* the call returns r: the block, and the accumulator as the call left it
Returned(r) == block' = r.block /\ paragraph' = r.paragraph

ParseNode ==
    /\ pc = "parse_node"
    /\ Returned(parse_node(node, paragraph))
    /\ pc' = "returned"
    /\ UNCHANGED <<node, lenVars, attrVars, parseVars, imageVars, inlineVars, pairVars>>

Next == ParseNode

Spec == Init /\ [][Next]_vars

-----------------------------------------------------------------------------
(* What a block tree and a DOM tree hold, for stating the properties *)

HasChildren(b) == b.type \in {"Root", "List", "ListItem", "Blockquote"}

\* the block and every block below it
RECURSIVE SubBlocks(_)
SubBlocks(b) ==
    {b} \cup (IF HasChildren(b)
              THEN UNION {SubBlocks(b.children[i]) : i \in 1..Len(b.children)}
              ELSE {})

\* the node and every node below it
RECURSIVE SubNodes(_)
SubNodes(nd) == {nd} \cup UNION {SubNodes(nd.children[i]) : i \in 1..Len(nd.children)}

\* the text of a paragraph's children, in order
RECURSIVE ParagraphText(_)
ParagraphText(p) == IF Len(p) = 0 THEN <<>> ELSE Head(p).text \o ParagraphText(Tail(p))

\* the paragraph has text or an image
HasContent(p) == \E i \in 1..Len(p) : Len(p[i].text) > 0 \/ IsSome(p[i].image)

RECURSIVE RowText(_)
RowText(cells) ==
    IF Len(cells) = 0 THEN <<>>
    ELSE ParagraphText(Head(cells).children) \o RowText(Tail(cells))

RECURSIVE TableText(_)
TableText(rows) ==
    IF Len(rows) = 0 THEN <<>> ELSE RowText(Head(rows).children) \o TableText(Tail(rows))

\* what a block tree shows, in order: the characters of its paragraphs,
\* headings, cells and code, and "BR" for each Break
RECURSIVE BlockEvents(_)
RECURSIVE BlocksEvents(_)
BlockEvents(b) ==
    CASE b.type = "Paragraph" -> ParagraphText(b.paragraph)
      [] b.type = "Heading" -> ParagraphText(b.paragraph)
      [] b.type = "CodeBlock" -> b.code
      [] b.type = "Table" -> TableText(b.children)
      [] b.type = "Break" -> <<"BR">>
      [] b.type = "Unknown" -> <<>>
      [] HasChildren(b) -> BlocksEvents(b.children)

BlocksEvents(bs) ==
    IF Len(bs) = 0 THEN <<>> ELSE BlockEvents(Head(bs)) \o BlocksEvents(Tail(bs))

\* what the DOM tree holds, in document order: the characters of its text
\* nodes and "BR" for each br element
RECURSIVE DomEvents(_)
RECURSIVE DomsEvents(_)
DomEvents(nd) ==
    IF nd.kind = "Text" THEN nd.contents
    ELSE IF nd.kind = "Element" /\ nd.name = "br" THEN <<"BR">>
    ELSE DomsEvents(nd.children)

DomsEvents(nds) ==
    IF Len(nds) = 0 THEN <<>> ELSE DomEvents(Head(nds)) \o DomsEvents(Tail(nds))

Range(seq) == {seq[i] : i \in 1..Len(seq)}

\* the document is made of text, br, generic block containers and blockquotes
IsFlowDocument(nd) ==
    \A n \in SubNodes(nd) :
        \/ n.kind \in {"Text", "Document"}
        \/ n.kind = "Element"
             /\ n.name \in {"html", "head", "body", "div", "br", "blockquote"}

(* C1: the block sequence follows document order: text before a
   block-producing child (here a br) of a container is emitted before that
   child's block and text after it is emitted after, in generic block
   containers as well as under the document root and blockquote. *)
C1_BlocksFollowDocumentOrder ==
    (pc = "returned" /\ IsFlowDocument(node)) =>
        BlockEvents(Unwrap(block)) = DomEvents(node)

(* C2: no Paragraph block anywhere in the tree returned by parse_node is
   empty: each one has text or an image. *)
C2_NoEmptyParagraphBlock ==
    (pc = "returned" /\ IsSome(block)) =>
        \A b \in SubBlocks(Unwrap(block)) :
            b.type = "Paragraph" => HasContent(b.paragraph)

\* a Paragraph block was emitted, and an accumulator that holds only a blank
\* inline node was left unemitted
C2_Witness ==
    /\ pc = "returned"
    /\ IsSome(block)
    /\ \E b \in SubBlocks(Unwrap(block)) : b.type = "Paragraph"
    /\ Len(paragraph) > 0
    /\ ~HasContent(paragraph)

\* the characters of the text inside style and script elements
StyleChars(nd) ==
    UNION {Range(DomEvents(n)) :
            n \in {m \in SubNodes(nd) :
                    m.kind = "Element" /\ m.name \in {"style", "script"}}}

(* C4: the text inside style and script elements never appears in the
   output, wherever the element is nested. *)
C4_StyleTextNeverInOutput ==
    (pc = "returned" /\ IsSome(block)) =>
        StyleChars(node) \cap Range(BlockEvents(Unwrap(block))) = {}

-----------------------------------------------------------------------------
(* parse_node applied to a heading whose content is a small forest of inline
   nodes: the heading branch runs parse_paragraph on each child *)

MaxInlineNodes == 3

InlineLeafTags == {"text", "img", "emoji", "nosrc"}
InlineContainerTags == {"em", "code", "a", "span"}

InitInline ==
    /\ pc = "parse_node"
    /\ \E shape \in Shapes(MaxInlineNodes) :
        \E tags \in [1..NodeCount(shape) -> InlineLeafTags \cup InlineContainerTags] :
            /\ WellTagged(shape, tags, InlineContainerTags)
            /\ node = Element("h2", <<>>, Nodes(shape, tags))
    /\ paragraph = <<>>
    /\ block = None
    /\ value = <<>> /\ length = None
    /\ attrs = <<>> /\ size = <<None, None>>
    /\ NoParse /\ NoImage /\ NoInline /\ NoPair

SpecInline == InitInline /\ [][Next]_vars

\* the number of img elements with a src attribute in the tree
RECURSIVE SrcImages(_)
RECURSIVE SrcImagesEach(_)
SrcImages(nd) ==
    IF IsElement(nd, {"img"})
    THEN (IF IsSome(attr_value(nd.attrs, "src")) THEN 1 ELSE 0)
    ELSE SrcImagesEach(nd.children)

SrcImagesEach(nds) ==
    IF Len(nds) = 0 THEN 0 ELSE SrcImages(Head(nds)) + SrcImagesEach(Tail(nds))

\* the number of image nodes of a paragraph
ImageNodes(p) == Cardinality({i \in DOMAIN p : IsSome(p[i].image)})

(* C3: every img element with a src attribute below a heading, at any nesting
   depth, is one image node of the heading's paragraph: the paragraph has as
   many image nodes as the heading has such img elements. *)
C3_NoNestedImageLost ==
    (pc = "returned" /\ IsSome(block) /\ Unwrap(block).type = "Heading") =>
        ImageNodes(Unwrap(block).paragraph) = SrcImages(node)

-----------------------------------------------------------------------------
(* parse_node applied to small tables.  A table is written as a sequence of
   tokens: "tr" opens a row, every other token adds a child to the open row. *)

MaxTableTokens == 5

\* a row; a td and a th holding a text; a td and a th with no child nodes; a td
\* holding a comment only; a span holding a text, which is not a cell
TableTokens == {"tr", "td", "th", "td0", "th0", "tdc", "span"}

RowChild(tok) ==
    CASE tok = "td" -> Element("td", <<>>, <<Text(<<"t">>)>>)
      [] tok = "th" -> Element("th", <<>>, <<Text(<<"t">>)>>)
      [] tok = "td0" -> Element("td", <<>>, <<>>)
      [] tok = "th0" -> Element("th", <<>>, <<>>)
      [] tok = "tdc" -> Element("td", <<>>, <<Comment(<<"c">>)>>)
      [] tok = "span" -> Element("span", <<>>, <<Text(<<"t">>)>>)

RECURSIVE RowsOfTokens(_, _)
RowsOfTokens(toks, rows) ==
    IF Len(toks) = 0 THEN rows
    ELSE IF Head(toks) = "tr"
    THEN RowsOfTokens(Tail(toks), Append(rows, Element("tr", <<>>, <<>>)))
    ELSE RowsOfTokens(Tail(toks),
            [rows EXCEPT ![Len(rows)].children = Append(@, RowChild(Head(toks)))])

\* the rows stand directly in the table, or in a tbody, or the first row in a
\* thead and the others in a tbody
TableSections == {"rows", "tbody", "thead"}

TableChildren(rows, section) ==
    CASE section = "rows" -> rows
      [] section = "tbody" -> <<Element("tbody", <<>>, rows)>>
      [] section = "thead" ->
            IF Len(rows) = 0 THEN <<Element("thead", <<>>, <<>>)>>
            ELSE <<Element("thead", <<>>, <<Head(rows)>>),
                   Element("tbody", <<>>, Tail(rows))>>

InitTable ==
    /\ pc = "parse_node"
    /\ \E toks \in StringsUpTo(TableTokens, MaxTableTokens) :
        \E section \in TableSections :
            /\ Len(toks) > 0 => toks[1] = "tr"
            /\ node = Relabel(Element("table", <<>>,
                                TableChildren(RowsOfTokens(toks, <<>>), section)), 1).nd
    /\ paragraph = <<>>
    /\ block = None
    /\ value = <<>> /\ length = None
    /\ attrs = <<>> /\ size = <<None, None>>
    /\ NoParse /\ NoImage /\ NoInline /\ NoPair

SpecTable == InitTable /\ [][Next]_vars

\* the row candidates of a table node, in document order
RECURSIVE RowCandidates(_)
RowCandidates(children) ==
    IF Len(children) = 0 THEN <<>>
    ELSE (IF IsElement(Head(children), {"tbody", "thead"})
          THEN Head(children).children
          ELSE <<Head(children)>>) \o RowCandidates(Tail(children))

\* the td and th children of a row node that have at least one child node
SurvivingCells(row) ==
    SelectSeq(row.children, LAMBDA c : IsElement(c, {"td", "th"}) /\ Len(c.children) > 0)

\* the td and th children of a row node that have no child node
EmptyCells(row) ==
    SelectSeq(row.children, LAMBDA c : IsElement(c, {"td", "th"}) /\ Len(c.children) = 0)

\* for each row candidate that has a surviving cell, its surviving cells
ExpectedRows(nd) ==
    LET cands == RowCandidates(nd.children)
    IN  SelectSeq([i \in DOMAIN cands |-> SurvivingCells(cands[i])],
                  LAMBDA cells : Len(cells) > 0)

IsTableResult == pc = "returned" /\ IsSome(block) /\ Unwrap(block).type = "Table"

(* C8: every row of the Table has at least one cell, and the rows are, in
   document order, the row candidates that have a surviving cell, each with
   exactly its td/th children that have a child node, in document order:
   cell by cell the text of the output cell is the text of that td/th. *)
C8_RowsAreTheSurvivingCells ==
    IsTableResult =>
        LET rows == Unwrap(block).children
            expected == ExpectedRows(node)
        IN  /\ Len(rows) = Len(expected)
            /\ \A i \in DOMAIN rows :
                /\ Len(rows[i].children) >= 1
                /\ Len(rows[i].children) = Len(expected[i])
                /\ \A j \in DOMAIN rows[i].children :
                    ParagraphText(rows[i].children[j].children)
                        = DomEvents(expected[i][j])

\* a table came out with a row, from a table node where one row candidate has
\* an empty cell and a child that is not a cell next to a surviving cell, and
\* another row candidate has no surviving cell
C8_Witness ==
    /\ IsTableResult
    /\ Len(Unwrap(block).children) >= 1
    /\ LET cands == RowCandidates(node.children)
       IN  /\ \E i \in DOMAIN cands :
                /\ Len(SurvivingCells(cands[i])) > 0
                /\ Len(EmptyCells(cands[i])) > 0
           /\ \E i \in DOMAIN cands :
                /\ Len(SurvivingCells(cands[i])) > 0
                /\ \E k \in DOMAIN cands[i].children :
                      ~IsElement(cands[i].children[k], {"td", "th"})
           /\ \E i \in DOMAIN cands : Len(SurvivingCells(cands[i])) = 0

\* the number of members of a sequence that satisfy Test
CountRows(seq, Test(_)) == Len(SelectSeq(seq, Test))

(* C9 as stated: a row that contains an empty cell is dropped: the Table has
   one row for each row candidate that has a surviving cell and no empty
   cell, and no other row. *)
C9_RowWithEmptyCellDropped ==
    IsTableResult =>
        Len(Unwrap(block).children) =
            CountRows(RowCandidates(node.children),
                      LAMBDA row : Len(SurvivingCells(row)) > 0
                                     /\ Len(EmptyCells(row)) = 0)

RECURSIVE CellCount(_)
CellCount(rows) ==
    IF Len(rows) = 0 THEN 0 ELSE Len(Head(rows).children) + CellCount(Tail(rows))

RECURSIVE SurvivingCount(_)
SurvivingCount(cands) ==
    IF Len(cands) = 0 THEN 0
    ELSE Len(SurvivingCells(Head(cands))) + SurvivingCount(Tail(cands))

(* C9 amended: an empty cell is left out of its row, and a row is dropped
   only when no cell of it survives: the Table has one row for each row
   candidate that has a surviving cell, whether or not it also has an empty
   cell, and the rows hold as many cells as there are surviving cells. *)
C9_RowDroppedOnlyWhenNoCellSurvives ==
    IsTableResult =>
        /\ Len(Unwrap(block).children) =
              CountRows(RowCandidates(node.children),
                        LAMBDA row : Len(SurvivingCells(row)) > 0)
        /\ CellCount(Unwrap(block).children)
              = SurvivingCount(RowCandidates(node.children))

\* a row candidate with an empty cell and a surviving cell went in, and its
\* row came out with the surviving cell
C9_Witness ==
    /\ IsTableResult
    /\ Len(RowCandidates(node.children)) = 1
    /\ Len(EmptyCells(RowCandidates(node.children)[1])) > 0
    /\ Len(SurvivingCells(RowCandidates(node.children)[1])) = 1
    /\ Len(Unwrap(block).children) = 1
    /\ Len(Unwrap(block).children[1].children) = 1

-----------------------------------------------------------------------------
(* parse_node applied to small pre elements *)

MaxPreChildren == 2

\* class attribute values of a code element: language-rs, lang-js, a token
\* before the match, two matching tokens, a prefix with nothing after it,
\* tokens that do not match
ClassTexts ==
    { LANGUAGE_PREFIX \o <<"r", "s">>,
      LANG_PREFIX \o <<"j", "s">>,
      <<"h", "l", " ">> \o LANGUAGE_PREFIX \o <<"r", "s">>,
      <<" ">> \o LANG_PREFIX \o <<"j", "s", "\t">> \o LANGUAGE_PREFIX \o <<"r", "s">>,
      LANGUAGE_PREFIX,
      <<"h", "l", " ", "l", "a", "n", "g">>,
      <<"l", "a", "n", "g", "u", "a", "g", "e">> }

\* the contents of a code element: nothing, a text, an element holding a text
\* followed by a text
CodeContents ==
    { <<>>,
      <<Text(<<"t">>)>>,
      <<Element("span", <<>>, <<Text(<<"t">>)>>), Text(<<"t">>)>> }

\* the children a pre element is given: a text, a span holding a text, and
\* code elements
PreChildren ==
    {Text(<<"t">>), Element("span", <<>>, <<Text(<<"t">>)>>)}
        \cup {Element("code", class, contents) :
                class \in OptionalAttr("class", ClassTexts), contents \in CodeContents}

InitPre ==
    /\ pc = "parse_node"
    /\ \E children \in StringsUpTo(PreChildren, MaxPreChildren) :
        node = Relabel(Element("pre", <<>>, children), 1).nd
    /\ paragraph = <<>>
    /\ block = None
    /\ value = <<>> /\ length = None
    /\ attrs = <<>> /\ size = <<None, None>>
    /\ NoParse /\ NoImage /\ NoInline /\ NoPair

SpecPre == InitPre /\ [][Next]_vars

\* the direct code children of the node that have descendant text
CodeChildrenWithText(nd) ==
    {i \in DOMAIN nd.children :
        /\ IsElement(nd.children[i], {"code"})
        /\ Len(collect_text_content(nd.children[i])) > 0}

First(set) == CHOOSE i \in set : \A j \in set : i <= j

\* the remainder, after the prefix, of the first class token that starts with
\* language- or lang-
LanguageOfClass(as) ==
    LET class == attr_value(as, "class")
        tokens == IF IsSome(class) THEN split_whitespace(Unwrap(class)) ELSE <<>>
        hits == {i \in DOMAIN tokens :
                    \/ StartsWith(tokens[i], LANGUAGE_PREFIX)
                    \/ StartsWith(tokens[i], LANG_PREFIX)}
        token == tokens[First(hits)]
    IN  IF hits = {} THEN None
        ELSE IF StartsWith(token, LANGUAGE_PREFIX)
        THEN Some(SubSeq(token, Len(LANGUAGE_PREFIX) + 1, Len(token)))
        ELSE Some(SubSeq(token, Len(LANG_PREFIX) + 1, Len(token)))

(* C10: for a pre element that has a direct code child with descendant text,
   the block is a CodeBlock whose code is the descendant text of the first
   such child, in document order, and whose language is the remainder, after
   the prefix, of the first class token of that child that starts with
   language- or lang-, and no language when there is no such token. *)
C10_CodeAndLanguageOfCodeChild ==
    (pc = "returned" /\ CodeChildrenWithText(node) # {}) =>
        LET code == node.children[First(CodeChildrenWithText(node))]
        IN  block = Some(CodeBlock(collect_text_content(code),
                                   LanguageOfClass(code.attrs)))

\* a CodeBlock with a language came out of a pre whose second child is the
\* code child with text, with two texts below it and a class whose first
\* token does not match
C10_Witness ==
    /\ pc = "returned"
    /\ CodeChildrenWithText(node) = {2}
    /\ Len(collect_text_content(node.children[2])) = 2
    /\ IsSome(attr_value(node.children[2].attrs, "class"))
    /\ IsNone(strip_prefix(split_whitespace(
                  Unwrap(attr_value(node.children[2].attrs, "class")))[1],
                           LANGUAGE_PREFIX))
    /\ IsSome(block)
    /\ Unwrap(block).type = "CodeBlock"
    /\ IsSome(Unwrap(block).lang)

-----------------------------------------------------------------------------
(* parse_node applied to small pre elements that may have no text at all, on
   an accumulator that is empty or holds a text *)

MaxFallbackChildren == 2

\* a text, a line break, an image, an empty span, a span holding a text, an
\* empty code element, a code element holding a text
FallbackChildren ==
    {Text(<<"t">>),
     Element("br", <<>>, <<>>),
     Element("img", SRC, <<>>),
     Element("span", <<>>, <<>>),
     Element("span", <<>>, <<Text(<<"t">>)>>),
     Element("code", <<>>, <<>>),
     Element("code", <<>>, <<Text(<<"t">>)>>)}

\* the accumulator the caller hands over: empty, or the text "0"
PendingParagraphs == {<<>>, push_str(<<>>, <<"0">>)}

InitPreFallback ==
    /\ pc = "parse_node"
    /\ \E children \in StringsUpTo(FallbackChildren, MaxFallbackChildren) :
        node = Relabel(Element("pre", <<>>, children), 1).nd
    /\ paragraph \in PendingParagraphs
    /\ block = None
    /\ value = <<>> /\ length = None
    /\ attrs = <<>> /\ size = <<None, None>>
    /\ NoParse /\ NoImage /\ NoInline /\ NoPair

SpecPreFallback == InitPreFallback /\ [][Next]_vars

\* the text nodes below the node, concatenated in document order
RECURSIVE DomText(_)
RECURSIVE DomsText(_)
DomText(nd) == IF nd.kind = "Text" THEN nd.contents ELSE DomsText(nd.children)

DomsText(nds) == IF Len(nds) = 0 THEN <<>> ELSE DomText(Head(nds)) \o DomsText(Tail(nds))

\* no direct code child of the node has descendant text
NoCodeChildWithText(nd) ==
    \A i \in DOMAIN nd.children :
        IsElement(nd.children[i], {"code"}) => DomText(nd.children[i]) = <<>>

\* the block b after the accumulator p was flushed: b alone when p had no
\* content, else a Root of the Paragraph of p and b
AfterFlush(p, b) == IF HasContent(p) THEN Root(<<ParagraphBlock(p), b>>) ELSE b

(* C11: a pre with no direct code child that has text: when the pre has
   descendant text, the block is a CodeBlock of all that text, in document
   order, with no language (after the flushed accumulator); when it has none,
   the call returns what it returns for the same node as a generic block
   container (a div): the children built as blocks and the accumulator
   flushed, a Root if there is a block and no block otherwise. *)
C11_PreFallback ==
    [][(pc = "parse_node" /\ IsElement(node, {"pre"}) /\ NoCodeChildWithText(node)) =>
          IF DomText(node) # <<>>
          THEN /\ block' = Some(AfterFlush(paragraph, CodeBlock(DomText(node), None)))
               /\ paragraph' = IF HasContent(paragraph) THEN <<>> ELSE paragraph
          ELSE /\ block' = parse_node([node EXCEPT !.name = "div"], paragraph).block
               /\ paragraph' = parse_node([node EXCEPT !.name = "div"], paragraph).paragraph
               /\ (block' = None \/ Unwrap(block').type = "Root")
      ]_vars

\* a pre without any text, holding an image, came back as the Root of the
\* flushed accumulator and the image's Paragraph
C11_Witness ==
    /\ pc = "returned"
    /\ IsElement(node, {"pre"})
    /\ DomText(node) = <<>>
    /\ \E i \in DOMAIN node.children : IsElement(node.children[i], {"img"})
    /\ IsSome(block)
    /\ Unwrap(block).type = "Root"
    /\ Len(Unwrap(block).children) = 2
    /\ Unwrap(block).children[1] = ParagraphBlock(push_str(<<>>, <<"0">>))
    /\ paragraph = <<>>

-----------------------------------------------------------------------------
(* parse_node applied to an img element with a src and a class of a few
   tokens, on an accumulator that is empty, blank, or holds a text or an
   inline image *)

MaxClassTokens == 2

ClassTokens ==
    {<<"e", "m", "o", "j", "i">>,
     <<"e", "m", "o", "j", "i", "-", "o", "n", "l", "y">>,
     <<"e", "m", "o", "j", "i", "s">>,
     <<"e", "m", "o", "j", "i", "-">>,
     <<"E", "m", "o", "j", "i">>,
     <<"b", "i", "g">>}

\* the tokens joined by one whitespace character, with or without a leading blank
RECURSIVE JoinedTokens(_)
JoinedTokens(n) ==
    IF n = 0 THEN {<<>>}
    ELSE LET shorter == JoinedTokens(n - 1)
         IN  shorter \cup ClassTokens
                \cup {s \o <<sep>> \o t :
                        s \in shorter \ {<<>>}, sep \in {" ", "\n"}, t \in ClassTokens}

EmojiClassTexts ==
    JoinedTokens(MaxClassTokens) \cup {<<" ">> \o s : s \in JoinedTokens(1)}

\* empty, a text, a node without text, an inline image
ImagePendingParagraphs ==
    {<<>>,
     push_str(<<>>, <<"0">>),
     push_str(<<>>, <<>>),
     push_image(<<>>, ImageNode(SRC \o EMOJI))}

InitImage ==
    /\ pc = "parse_node"
    /\ \E class \in OptionalAttr("class", EmojiClassTexts) :
        node = Element("img", SRC \o class, <<>>)
    /\ paragraph \in ImagePendingParagraphs
    /\ block = None
    /\ value = <<>> /\ length = None
    /\ attrs = <<>> /\ size = <<None, None>>
    /\ NoParse /\ NoImage /\ NoInline /\ NoPair

SpecImage == InitImage /\ [][Next]_vars

\* t stands in s between whitespace or the ends of s
IsTokenOf(t, s) ==
    \E i \in 1..Len(s) :
        /\ i + Len(t) - 1 <= Len(s)
        /\ SubSeq(s, i, i + Len(t) - 1) = t
        /\ (i = 1 \/ IsWhitespace(s[i - 1]))
        /\ (i + Len(t) - 1 = Len(s) \/ IsWhitespace(s[i + Len(t)]))

\* the class attribute has the token emoji or emoji-only
HasEmojiClass(nd) ==
    \E k \in DOMAIN nd.attrs :
        /\ nd.attrs[k].name = "class"
        /\ \/ IsTokenOf(<<"e", "m", "o", "j", "i">>, nd.attrs[k].value)
           \/ IsTokenOf(<<"e", "m", "o", "j", "i", "-", "o", "n", "l", "y">>,
                        nd.attrs[k].value)

\* the inline node is the image of that url with that is_inline
IsImageOf(inline, url, inl) ==
    /\ IsSome(inline.image)
    /\ Unwrap(inline.image).url = url
    /\ Unwrap(inline.image).is_inline = inl

(* C12: for an img with a src handled by parse_node: when the class has the
   token emoji or emoji-only the image, with is_inline true, is appended to
   the accumulator, no block is returned and nothing is flushed; otherwise the
   accumulator is flushed and the block is a Paragraph holding only the image,
   with is_inline false (in a Root after the flushed Paragraph, if any). *)
C12_InlineExactlyWhenEmojiClass ==
    [][(pc = "parse_node" /\ IsElement(node, {"img"})
            /\ IsSome(attr_value(node.attrs, "src"))) =>
          IF HasEmojiClass(node)
          THEN /\ block' = None
               /\ Len(paragraph') = Len(paragraph) + 1
               /\ SubSeq(paragraph', 1, Len(paragraph)) = paragraph
               /\ IsImageOf(paragraph'[Len(paragraph')], <<"u">>, TRUE)
          ELSE /\ IsSome(block')
               /\ LET b == IF HasContent(paragraph) /\ Unwrap(block').type = "Root"
                           THEN Unwrap(block').children[Len(Unwrap(block').children)]
                           ELSE Unwrap(block')
                  IN  /\ b.type = "Paragraph"
                      /\ Len(b.paragraph) = 1
                      /\ IsImageOf(b.paragraph[1], <<"u">>, FALSE)
                      /\ block' = Some(AfterFlush(paragraph, b))
               /\ paragraph' = IF HasContent(paragraph) THEN <<>> ELSE paragraph
      ]_vars

\* an image whose class has emoji-only as its second token joined an
\* accumulator that held a text, and no block came back
C12_Witness ==
    /\ pc = "returned"
    /\ IsElement(node, {"img"})
    /\ \E k \in DOMAIN node.attrs :
        /\ node.attrs[k].name = "class"
        /\ Len(node.attrs[k].value) > 10
        /\ IsTokenOf(<<"e", "m", "o", "j", "i", "-", "o", "n", "l", "y">>,
                     node.attrs[k].value)
    /\ block = None
    /\ Len(paragraph) = 2
    /\ paragraph[1].text = <<"0">>
    /\ IsImageOf(paragraph[2], <<"u">>, TRUE)

-----------------------------------------------------------------------------
(* parse_node applied to small documents of texts, images without a src,
   headings, generic blocks and inline elements *)

MaxNoSrcNodes == 4

NoSrcLeafTags == {"text", "nosrc"}
NoSrcContainerTags == {"h2", "div", "span"}

InitNoSrc ==
    /\ pc = "parse_node"
    /\ IsDocument(node, MaxNoSrcNodes, NoSrcLeafTags, NoSrcContainerTags)
    /\ paragraph = <<>>
    /\ block = None
    /\ value = <<>> /\ length = None
    /\ attrs = <<>> /\ size = <<None, None>>
    /\ NoParse /\ NoImage /\ NoInline /\ NoPair

SpecNoSrc == InitNoSrc /\ [][Next]_vars

IsImgWithoutSrc(nd) ==
    IsElement(nd, {"img"}) /\ \A k \in DOMAIN nd.attrs : nd.attrs[k].name # "src"

\* the tree without its img elements that have no src
RECURSIVE WithoutNoSrc(_)
RECURSIVE WithoutNoSrcEach(_)
WithoutNoSrc(nd) == [nd EXCEPT !.children = WithoutNoSrcEach(nd.children)]

WithoutNoSrcEach(nds) ==
    IF Len(nds) = 0 THEN <<>>
    ELSE IF IsImgWithoutSrc(Head(nds)) THEN WithoutNoSrcEach(Tail(nds))
    ELSE <<WithoutNoSrc(Head(nds))>> \o WithoutNoSrcEach(Tail(nds))

(* C13: an img without a src is skipped by the block builder and by the
   inline builder: it gives no block, appends nothing and leaves the
   accumulator as it was, so that the document comes out as it does without
   its img elements that have no src. *)
C13_ImgWithoutSrcSkipped ==
    pc = "returned" =>
        /\ block = parse_node(WithoutNoSrc(node), <<>>).block
        /\ paragraph = parse_node(WithoutNoSrc(node), <<>>).paragraph

\* a document came out with a block: one img without a src stands after a text
\* in the body, where parse_node meets it, and one in a heading, where
\* parse_paragraph meets it
C13_Witness ==
    /\ pc = "returned"
    /\ IsSome(block)
    /\ \E n \in SubNodes(node) :
        /\ IsElement(n, {"body"})
        /\ Len(n.children) >= 2
        /\ n.children[1].kind = "Text"
        /\ IsImgWithoutSrc(n.children[2])
    /\ \E n \in SubNodes(node) :
        /\ IsElement(n, {"h2"})
        /\ \E i \in DOMAIN n.children : IsImgWithoutSrc(n.children[i])

-----------------------------------------------------------------------------
(* parse_node applied to a li whose content is a small forest of texts,
   inline emoji images and inline elements, on an empty accumulator *)

MaxListItemNodes == 3

ListItemLeafTags == {"text", "emoji"}
ListItemContainerTags == {"em", "span", "a"}

InitListItem ==
    /\ pc = "parse_node"
    /\ \E shape \in Shapes(MaxListItemNodes) :
        \E tags \in [1..NodeCount(shape) -> ListItemLeafTags \cup ListItemContainerTags] :
            /\ WellTagged(shape, tags, ListItemContainerTags)
            /\ node = Element("li", <<>>, Nodes(shape, tags))
    /\ paragraph = <<>>
    /\ block = None
    /\ value = <<>> /\ length = None
    /\ attrs = <<>> /\ size = <<None, None>>
    /\ NoParse /\ NoImage /\ NoInline /\ NoPair

SpecListItem == InitListItem /\ [][Next]_vars

(* C14: a li whose children are only text and inline elements yields a
   ListItem with spread false and checked none that has exactly one child, a
   Paragraph holding the children's content in document order: the text of the
   li's text nodes and one image node for each of its images. *)
C14_ListItemOneParagraph ==
    (pc = "returned" /\ IsElement(node, {"li"}) /\ Len(node.children) > 0) =>
        /\ IsSome(block)
        /\ Unwrap(block).type = "ListItem"
        /\ Unwrap(block).spread = FALSE
        /\ Unwrap(block).checked = None
        /\ Len(Unwrap(block).children) = 1
        /\ Unwrap(block).children[1].type = "Paragraph"
        /\ ParagraphText(Unwrap(block).children[1].paragraph) = DomText(node)
        /\ ImageNodes(Unwrap(block).children[1].paragraph) = SrcImages(node)

(* C14, the text alone: the li yields a ListItem with spread false and checked
   none; when its children hold text, it has exactly one child, a Paragraph,
   and that has the text of the li's text nodes in document order *)
C14_ListItemTextInOneParagraph ==
    (pc = "returned" /\ IsElement(node, {"li"})) =>
        /\ IsSome(block)
        /\ Unwrap(block).type = "ListItem"
        /\ Unwrap(block).spread = FALSE
        /\ Unwrap(block).checked = None
        /\ DomText(node) # <<>> =>
            /\ Len(Unwrap(block).children) = 1
            /\ Unwrap(block).children[1].type = "Paragraph"
            /\ ParagraphText(Unwrap(block).children[1].paragraph) = DomText(node)


-----------------------------------------------------------------------------
(* parse: the minifier, the tokenizer, parse_node on the document and the
   compaction of its block.

   A source is a sequence of lexemes: an element name opens an element, "/"
   closes the innermost open one, "text" is a run of text, " " is white
   space between tags, "img" is an image with a src. *)

\* the most lexemes of a source
MaxSourceLen == 5

LeafLexemes == {"text", " ", "img"}
OpenLexemes == {"div", "blockquote", "pre"}
CloseLexeme == "/"
Lexemes == LeafLexemes \cup OpenLexemes \cup {CloseLexeme}

\* the number of elements left open by the lexemes, -1 when one closes nothing
RECURSIVE OpenAfter(_, _)
OpenAfter(src, open) ==
    IF open < 0 \/ Len(src) = 0 THEN open
    ELSE OpenAfter(Tail(src),
            CASE Head(src) \in OpenLexemes -> open + 1
              [] Head(src) = CloseLexeme -> open - 1
              [] OTHER -> open)

\* every element of the source is closed, and nothing else is
WellNested(src) == OpenAfter(src, 0) = 0

Sources == {src \in UNION {[1..n -> Lexemes] : n \in 0..MaxSourceLen} : WellNested(src)}

\* the deepest nesting of elements in the lexemes
RECURSIVE Nesting(_, _, _)
Nesting(src, open, deepest) ==
    IF Len(src) = 0 THEN deepest
    ELSE CASE Head(src) \in OpenLexemes ->
                Nesting(Tail(src), open + 1,
                        IF open + 1 > deepest THEN open + 1 ELSE deepest)
           [] Head(src) = CloseLexeme -> Nesting(Tail(src), open - 1, deepest)
           [] OTHER -> Nesting(Tail(src), open, deepest)

Ok(v) == [ok |-> TRUE, value |-> v]
Err(e) == [ok |-> FALSE, err |-> e]

\* Minifier::minify on a whole source: the white space between tags is
\* dropped, except inside a pre
RECURSIVE minify(_, _)
minify(src, open) ==
    IF Len(src) = 0 THEN <<>>
    ELSE IF Head(src) = " " /\ "pre" \notin Range(open)
         THEN minify(Tail(src), open)
         ELSE <<Head(src)>> \o
              minify(Tail(src),
                     CASE Head(src) \in OpenLexemes -> <<Head(src)>> \o open
                       [] Head(src) = CloseLexeme /\ Len(open) > 0 -> Tail(open)
                       [] OTHER -> open)

\* what the minifier can do with a source: succeed, w holding the minified
\* bytes; or fail, w holding what had been written until then
WrittenUpTo(m) ==
    {[ok |-> TRUE, w |-> m]} \cup {[ok |-> FALSE, w |-> SubSeq(m, 1, k)] : k \in 0..Len(m)}

MinifierResults(src) == WrittenUpTo(minify(src, <<>>))

\* cleanup_html, r being the minifier's result
cleanup_html_written(src, r) == r.w

cleanup_html(src, r) == IF r.ok THEN r.w ELSE src

\* the tree builder on the lexemes from position i up to the "/" that closes
\* the open element, or to the end
RECURSIVE tokenize(_, _)
tokenize(bs, i) ==
    IF i > Len(bs) \/ bs[i] = CloseLexeme THEN [nds |-> <<>>, next |-> i + 1]
    ELSE IF bs[i] \in OpenLexemes
         THEN LET inner == tokenize(bs, i + 1)
                  rest == tokenize(bs, inner.next)
              IN  [nds |-> <<Element(bs[i], <<>>, inner.nds)>> \o rest.nds,
                   next |-> rest.next]
         ELSE LET rest == tokenize(bs, i + 1)
                  nd == CASE bs[i] = "text" -> Text(<<"t">>)
                          [] bs[i] = " " -> Text(<<" ">>)
                          [] bs[i] = "img" -> Element("img", SRC, <<>>)
              IN  [nds |-> <<nd>> \o rest.nds, next |-> rest.next]

\* parse_document(RcDom::default(), opts).from_utf8().read_from(&mut cursor)
parse_document(bs) == HtmlDocument(tokenize(bs, 1).nds)

unwrap_or(o, default) == IF IsSome(o) THEN Unwrap(o) ELSE default

\* BlockNode::compact: depth first, a Root with exactly one child is replaced
\* by that child
RECURSIVE compact(_)
RECURSIVE compact_each(_)
compact_outermost(b) ==
    IF b.type = "Root" /\ Len(b.children) = 1 THEN b.children[1] ELSE b

compact(b) ==
    IF HasChildren(b)
    THEN IF b.type = "Root" /\ Len(b.children) = 1
         THEN compact(b.children[1])
         ELSE [b EXCEPT !.children = compact_each(b.children)]
    ELSE b

compact_each(bs) ==
    IF Len(bs) = 0 THEN <<>>
    ELSE <<compact(Head(bs))>> \o compact_each(Tail(bs))

\* the end of parse: unwrap_or(BlockNode::Unknown), compact, Ok(ParsedDocument)
ParsedDocument_uncompacted(src, b) ==
    Ok([source |-> src, blocks |-> <<unwrap_or(b, Unknown)>>])

ParsedDocument(src, b) ==
    Ok([source |-> src, blocks |-> <<compact(unwrap_or(b, Unknown))>>])

InitParse ==
    /\ pc = "cleanup_html"
    /\ source \in Sources
    /\ minified = None /\ bytes = <<>> /\ read_error = None /\ document = None
    /\ node = NoDom /\ paragraph = <<>> /\ block = None
    /\ value = <<>> /\ length = None
    /\ attrs = <<>> /\ size = <<None, None>>
    /\ NoImage /\ NoInline /\ NoPair

\* let bytes = cleanup_html(&source)
CleanupHtml ==
    /\ pc = "cleanup_html"
    /\ \E r \in MinifierResults(source) :
          /\ minified' = Some(r)
          /\ bytes' = cleanup_html(source, r)
    /\ pc' = "parse_document"
    /\ UNCHANGED <<source, read_error, document, domVars, lenVars, attrVars, imageVars, inlineVars, pairVars>>

\* let dom = parse_document(..).read_from(&mut cursor).map_err(..)?
ParseDocument ==
    /\ pc = "parse_document"
    /\ \E failed \in BOOLEAN :
          /\ read_error' = Some(failed)
          /\ IF failed
             THEN /\ document' = Some(Err(<<"e">>))
                  /\ pc' = "done"
                  /\ UNCHANGED node
             ELSE /\ node' = parse_document(bytes)
                  /\ pc' = "parse_node"
                  /\ UNCHANGED document
    /\ UNCHANGED <<source, minified, bytes, paragraph, block, lenVars, attrVars, imageVars, inlineVars, pairVars>>

\* let node = node.compact(); Ok(ParsedDocument { .. })
Compact ==
    /\ pc = "returned"
    /\ document' = Some(ParsedDocument(source, block))
    /\ pc' = "done"
    /\ UNCHANGED <<source, minified, bytes, read_error, domVars, lenVars, attrVars, imageVars, inlineVars, pairVars>>

NextParse == CleanupHtml \/ ParseDocument \/ ParseNode \/ Compact

SpecParse == InitParse /\ [][NextParse]_vars

\* parse has returned Ok(ParsedDocument)
Parsed == pc = "done" /\ IsSome(document) /\ Unwrap(document).ok

\* parse has returned Err
Failed == pc = "done" /\ IsSome(document) /\ ~Unwrap(document).ok

\* the block of the document parse returned
TopBlock == Unwrap(document).value.blocks[1]

\* b holds, at some depth, a Root with n children
RECURSIVE HoldsRootOf(_, _)
HoldsRootOf(b, n) ==
    \/ b.type = "Root" /\ Len(b.children) = n
    \/ HasChildren(b) /\ \E i \in 1..Len(b.children) : HoldsRootOf(b.children[i], n)

\* what is under the single-child Roots that b starts with
RECURSIVE Unwrapped(_)
Unwrapped(b) ==
    IF b.type = "Root" /\ Len(b.children) = 1 THEN Unwrapped(b.children[1]) ELSE b

(* C15: compacting the block of a parsed document, which parse has compacted,
   gives the same block *)
C15_CompactionIdempotent == Parsed => compact(TopBlock) = TopBlock

\* parse compacted a tree of several blocks, and the compaction changed it
C15_Witness ==
    /\ Parsed
    /\ TopBlock # Unwrap(block)
    /\ TopBlock.type = "Root" /\ Len(TopBlock.children) > 1
    /\ \E i \in 1..Len(TopBlock.children) : HasChildren(TopBlock.children[i])

(* C16: the block of a parsed document holds no Root with exactly one child at
   any depth; when the body yields one block that is a code block or a
   paragraph, the document's block is that block, without the Roots of the
   document, html and body levels *)
C16_NoSingleChildRoot ==
    Parsed =>
        /\ ~HoldsRootOf(TopBlock, 1)
        /\ (IsSome(block) /\ ~HasChildren(Unwrapped(Unwrap(block))))
                => TopBlock = Unwrapped(Unwrap(block))

\* one pre in the body: parse_node gave Root[Root[Root[CodeBlock]]], and the
\* document's block is the CodeBlock
C16_Witness ==
    /\ Parsed
    /\ IsSome(block)
    /\ Unwrap(block).type = "Root" /\ Len(Unwrap(block).children) = 1
    /\ Unwrap(block).children[1].type = "Root"
    /\ Len(Unwrap(block).children[1].children) = 1
    /\ Unwrap(block).children[1].children[1].type = "Root"
    /\ TopBlock.type = "CodeBlock"

(* C17: the block of a parsed document holds no Root with zero children, and
   is Unknown when parse_node built no block from the document *)
C17_NoEmptyRoot ==
    Parsed =>
        /\ ~HoldsRootOf(TopBlock, 0)
        /\ (block = None \/ block = Some(Root(<<>>))) => TopBlock = Unknown

(* C18: when the minifier fails the tokenizer is given the source bytes as
   they are, and parse goes on; parse returns Err exactly when the tokenizer
   fails, and then no block has been built *)
C18_MinifierFailureNotSurfaced ==
    /\ (IsSome(minified) /\ ~Unwrap(minified).ok) =>
            /\ bytes = source
            /\ pc # "done" \/ IsSome(read_error)
            /\ (IsSome(read_error) /\ ~Unwrap(read_error)) =>
                    node = parse_document(source)
    /\ pc = "done" => IsSome(document)
    /\ Failed <=> (pc = "done" /\ read_error = Some(TRUE))
    /\ Failed => (DOMAIN Unwrap(document) = {"ok", "err"} /\ block = None /\ node = NoDom)

\* the minifier failed after writing bytes that are not the source, the source
\* has white space the minifier drops, and parse returned a document with text
C18_Witness ==
    /\ Parsed
    /\ ~Unwrap(minified).ok
    /\ Unwrap(minified).w # source
    /\ minify(source, <<>>) # source
    /\ TopBlock.type = "Root"

(* C19: a source whose elements are nested as deep as a source of
   MaxSourceLen lexemes can nest them is not parsed: parse returns Err *)
C19_DeepNestingIsError ==
    (pc = "done" /\ Nesting(bytes, 0, 0) >= MaxSourceLen \div 2) => Failed

-----------------------------------------------------------------------------
(* inline_image.rs: InlineImage::paint and the selection it writes to the
   shared InlineState.  Pixels are whole numbers; the image is one pixel
   square; the alt text is ASCII, one byte per character. *)

\* the largest coordinate, and the most bytes of an alt text
MaxPixels == 2
MaxAltLen == 2

Pixels == 0..MaxPixels
Lines == 0..1

Bounds(x, y, width, height) ==
    [origin |-> [x |-> x, y |-> y], size |-> [width |-> width, height |-> height]]

ImageBounds == {Bounds(x, y, 1, 1) : x \in Pixels, y \in Lines}
SelectionBounds == {Bounds(x, y, w, 1) : x \in Pixels, y \in Lines, w \in Pixels}

\* Bounds::intersects
intersects(a, b) ==
    /\ a.origin.x < b.origin.x + b.size.width
    /\ a.origin.x + a.size.width > b.origin.x
    /\ a.origin.y < b.origin.y + b.size.height
    /\ a.origin.y + a.size.height > b.origin.y

\* the text view state of GlobalState, if there is one: what is_selectable(),
\* has_selection() and selection_bounds() return
TextViewStates ==
    {None} \cup
    {Some([is_selectable |-> s, has_selection |-> h, selection_bounds |-> b]) :
        s \in BOOLEAN, h \in BOOLEAN, b \in SelectionBounds}

AltTexts == {[i \in 1..n |-> "a"] : n \in 0..MaxAltLen}

\* (0..alt_len).into()
Selection(start, end) == [start |-> start, end |-> end]

\* InlineState::default()
InlineState ==
    [hovered_index |-> None, text |-> <<>>, selection |-> None,
     overlay_replacements |-> <<>>]

\* InlineImage::check_selection: the pair (is_selectable, selection)
check_selection_any_bounds(alt, image_bounds, tvs) ==
    IF tvs = None THEN [is_selectable |-> FALSE, selection |-> None]
    ELSE IF ~Unwrap(tvs).has_selection
         THEN [is_selectable |-> Unwrap(tvs).is_selectable, selection |-> None]
         ELSE [is_selectable |-> Unwrap(tvs).is_selectable,
               selection |-> IF Len(alt) > 0 THEN Some(Selection(0, Len(alt))) ELSE None]

check_selection(alt, image_bounds, tvs) ==
    IF tvs = None THEN [is_selectable |-> FALSE, selection |-> None]
    ELSE IF ~Unwrap(tvs).has_selection
         THEN [is_selectable |-> Unwrap(tvs).is_selectable, selection |-> None]
         ELSE IF intersects(image_bounds, Unwrap(tvs).selection_bounds)
              THEN [is_selectable |-> Unwrap(tvs).is_selectable,
                    selection |-> IF Len(alt) > 0
                                  THEN Some(Selection(0, Len(alt))) ELSE None]
              ELSE [is_selectable |-> Unwrap(tvs).is_selectable, selection |-> None]

\* steps 3 to 5 of paint, r being what check_selection returned
painted_window(image_bounds, r) ==
    [cursor_style |-> IF r.is_selectable \/ IsSome(r.selection)
                      THEN Some("IBeam") ELSE None,
     overlay |-> IF IsSome(r.selection) THEN Some(image_bounds) ELSE None]

InitInlineImage ==
    /\ pc = "new"
    /\ text_view_state \in TextViewStates
    /\ alt_text \in AltTexts
    /\ bounds = None
    /\ state = InlineState
    /\ window = [cursor_style |-> None, overlay |-> None]
    /\ node = NoDom /\ paragraph = <<>> /\ block = None
    /\ value = <<>> /\ length = None
    /\ attrs = <<>> /\ size = <<None, None>>
    /\ NoParse /\ NoInline /\ NoPair

\* after check_selection returned r
Painted(image_bounds, r) ==
    /\ bounds' = Some(image_bounds)
    /\ state' = [state EXCEPT !.selection = r.selection]
    /\ window' = painted_window(image_bounds, r)

\* InlineImage::paint
Paint ==
    /\ pc \in {"new", "painted", "changed"}
    /\ \E image_bounds \in ImageBounds :
          Painted(image_bounds, check_selection(alt_text, image_bounds, text_view_state))
    /\ pc' = "painted"
    /\ UNCHANGED <<text_view_state, alt_text, domVars, lenVars, attrVars, parseVars, inlineVars, pairVars>>

\* between two paints the text view's selection changes, or the text view
\* state is set or dropped
TextViewChanges ==
    /\ pc \in {"new", "painted", "changed"}
    /\ \E tvs \in TextViewStates :
          /\ tvs # text_view_state
          /\ text_view_state' = tvs
    /\ pc' = "changed"
    /\ UNCHANGED <<alt_text, bounds, state, window, domVars, lenVars, attrVars, parseVars, inlineVars, pairVars>>

NextInlineImage == Paint \/ TextViewChanges

SpecInlineImage == InitInlineImage /\ [][NextInlineImage]_vars

\* the text view has a selection whose rectangle the bounds of the last paint
\* intersect
SelectionOverImage ==
    /\ IsSome(text_view_state)
    /\ Unwrap(text_view_state).has_selection
    /\ intersects(Unwrap(bounds), Unwrap(text_view_state).selection_bounds)

(* C20: after a paint the selection of the shared state is none or the whole
   of the alt text, 0..alt_text.len(); it is the whole alt text exactly when
   the text view has a selection, the image bounds intersect the selection
   rectangle and the alt text is not empty; whatever an earlier paint wrote *)
C20_SelectionAllOrNothing ==
    pc = "painted" =>
        /\ state.selection \in {None, Some(Selection(0, Len(alt_text)))}
        /\ state.selection = Some(Selection(0, Len(alt_text)))
                <=> (SelectionOverImage /\ Len(alt_text) > 0)
        /\ state.selection = None <=> ~(SelectionOverImage /\ Len(alt_text) > 0)

\* a paint selected the whole of an alt text of several bytes, while another
\* place of the image would not have met the selection rectangle
C20_Witness ==
    /\ pc = "painted"
    /\ Len(alt_text) > 1
    /\ state.selection = Some(Selection(0, Len(alt_text)))
    /\ \E b \in ImageBounds : ~intersects(b, Unwrap(text_view_state).selection_bounds)

-----------------------------------------------------------------------------
(* inline.rs: point_in_text_selection.  Pixels are whole numbers; the half of
   a char_width is compared exactly, by doubling both sides. *)

\* the largest coordinate and the largest extent of a selection rectangle
MaxPoint == 3

Coordinates == 0..MaxPoint
LineHeights == 1..2
CharWidths == 0..2

\* 2 * (pos.x + char_width.half())
midpoint_doubled(pos, char_width) == 2 * pos.x + char_width

single_line_selection(pos, char_width, bs, line_height) ==
    IF pos.y + line_height < bs.origin.y \/ pos.y >= bs.origin.y + bs.size.height
    THEN FALSE
    ELSE /\ midpoint_doubled(pos, char_width) >= 2 * bs.origin.x
         /\ midpoint_doubled(pos, char_width) <= 2 * (bs.origin.x + bs.size.width)

point_in_text_selection(pos, char_width, bs, line_height) ==
    LET top == bs.origin.y
        bottom == bs.origin.y + bs.size.height
        left == bs.origin.x
        right == bs.origin.x + bs.size.width
    IN  IF pos.y + line_height < top \/ pos.y >= bottom THEN FALSE
        ELSE IF (bottom - top) <= line_height
             THEN /\ midpoint_doubled(pos, char_width) >= 2 * left
                  /\ midpoint_doubled(pos, char_width) <= 2 * right
             ELSE IF pos.y <= top
                  THEN midpoint_doubled(pos, char_width) >= 2 * left
                  ELSE IF pos.y + line_height >= bottom
                       THEN midpoint_doubled(pos, char_width) <= 2 * right
                       ELSE TRUE

InitPoint ==
    /\ pc = "point_in_text_selection"
    /\ point \in [pos : [x : Coordinates, y : Coordinates],
                  char_width : CharWidths,
                  bounds : {Bounds(x, y, w, h) : x \in Coordinates, y \in Coordinates,
                                                 w \in Coordinates, h \in Coordinates},
                  line_height : LineHeights]
    /\ selected = None
    /\ node = NoDom /\ paragraph = <<>> /\ block = None
    /\ value = <<>> /\ length = None
    /\ attrs = <<>> /\ size = <<None, None>>
    /\ NoParse /\ NoImage /\ NoPair /\ NoInlinePaint

PointInTextSelection ==
    /\ pc = "point_in_text_selection"
    /\ selected' = Some(point_in_text_selection(
                            point.pos, point.char_width, point.bounds, point.line_height))
    /\ pc' = "returned"
    /\ UNCHANGED <<point, paintVars, domVars, lenVars, attrVars, parseVars, imageVars, pairVars>>

NextPoint == PointInTextSelection

SpecPoint == InitPoint /\ [][NextPoint]_vars

PointTop == point.bounds.origin.y
PointBottom == point.bounds.origin.y + point.bounds.size.height
PointLeft == point.bounds.origin.x
PointRight == point.bounds.origin.x + point.bounds.size.width

\* the selection rectangle is taller than one line
TallerThanOneLine == PointBottom - PointTop > point.line_height

\* the character's horizontal midpoint is at or right of the left edge, at or
\* left of the right edge
MidpointFromLeft == 2 * point.pos.x + point.char_width >= 2 * PointLeft
MidpointToRight == 2 * point.pos.x + point.char_width <= 2 * PointRight

(* C21: for a selection rectangle taller than one line, a character whose
   line is wholly above the top or starts at or below the bottom is not
   selected; on a middle line it is selected; on the first line it is selected
   iff its midpoint is at or right of the left edge; on the last line iff its
   midpoint is at or left of the right edge *)
C21_MultiLineSelection ==
    (pc = "returned" /\ IsSome(selected) /\ TallerThanOneLine) =>
        LET y == point.pos.y
            h == point.line_height
        IN  /\ (y + h < PointTop \/ y >= PointBottom) => ~Unwrap(selected)
            /\ (PointTop < y /\ y + h < PointBottom) => Unwrap(selected)
            /\ (y <= PointTop /\ y + h >= PointTop) =>
                    (Unwrap(selected) <=> MidpointFromLeft)
            /\ (y < PointBottom /\ y + h >= PointBottom) =>
                    (Unwrap(selected) <=> MidpointToRight)

\* a character on a middle line, left of the rectangle, is selected
C21_Witness ==
    /\ pc = "returned" /\ IsSome(selected) /\ TallerThanOneLine
    /\ PointTop < point.pos.y /\ point.pos.y + point.line_height < PointBottom
    /\ ~MidpointFromLeft
    /\ Unwrap(selected)

-----------------------------------------------------------------------------
(* parse_paragraph called on one node: deep trees over a small alphabet, and
   shallow trees over every inline element the function names *)

\* the most nodes of a deep tree, and of a shallow one
MaxMarkNodes == 5
MaxStyleNodes == 3

MarkLeafTags == {"text"}
MarkContainerTags == {"em", "span"}
StyleLeafTags == {"text", "img"}
StyleContainerTags == {"em", "i", "strong", "b", "del", "s", "code", "a", "span"}

\* the trees of at most n nodes over the alphabet
IsTree(nd, n, leaves, containers) ==
    \E shape \in Shapes(n) :
        \E tags \in [1..NodeCount(shape) -> leaves \cup containers] :
            /\ WellTagged(shape, tags, containers)
            /\ Len(Nodes(shape, tags)) = 1
            /\ nd = Nodes(shape, tags)[1]

InitParagraph ==
    /\ pc = "parse_paragraph"
    /\ \/ IsTree(node, MaxMarkNodes, MarkLeafTags, MarkContainerTags)
       \/ IsTree(node, MaxStyleNodes, StyleLeafTags, StyleContainerTags)
    /\ paragraph \in PendingParagraphs
    /\ text_marks = None
    /\ block = None
    /\ value = <<>> /\ length = None
    /\ attrs = <<>> /\ size = <<None, None>>
    /\ NoParse /\ NoImage /\ NoInline

\* parse_paragraph(paragraph, node) returned r
ReturnedPair(r) ==
    /\ text_marks' = Some([text |-> r.text, marks |-> r.marks])
    /\ paragraph' = r.paragraph

ParseParagraph ==
    /\ pc = "parse_paragraph"
    /\ ReturnedPair(parse_paragraph(paragraph, node))
    /\ pc' = "returned"
    /\ UNCHANGED <<node, block, lenVars, attrVars, parseVars, imageVars, inlineVars>>

NextParagraph == ParseParagraph

SpecParagraph == InitParagraph /\ [][NextParagraph]_vars

\* the elements that push a mark of the kind
KindElements(kind) ==
    CASE kind = "italic" -> {"em", "i"}
      [] kind = "bold" -> {"strong", "b"}
      [] kind = "strikethrough" -> {"del", "s"}
      [] kind = "code" -> {"code"}
      [] kind = "link" -> {"a"}

MarkKinds == {"italic", "bold", "strikethrough", "code", "link"}

\* the characters of the text nodes at or below nd that are inside an element
\* of the names; inside tells whether nd itself is
RECURSIVE CharsInside(_, _, _)
CharsInside(nd, names, inside) ==
    IF nd.kind = "Text" THEN (IF inside THEN Range(nd.contents) ELSE {})
    ELSE UNION {CharsInside(nd.children[i], names, inside \/ IsElement(nd, names)) :
                    i \in 1..Len(nd.children)}

\* the characters of the text that the marks of the kind cover
CharsMarked(text, marks, kind) ==
    {text[k] : k \in {k \in 1..Len(text) :
        \E i \in 1..Len(marks) :
            /\ marks[i].style.kind = kind
            /\ marks[i].start < k /\ k <= marks[i].end}}

(* C22: merge_child_text shifts both ends of a child's mark by the same
   offset, so that at every nesting depth a mark covers the characters it
   covered in the child: the characters that the returned marks of a kind
   cover are the characters inside the elements of that kind *)
C22_MarksCoverSameCharacters ==
    (pc = "returned" /\ IsSome(text_marks)) =>
        \A kind \in MarkKinds :
            CharsMarked(Unwrap(text_marks).text, Unwrap(text_marks).marks, kind)
                = CharsInside(node, KindElements(kind), FALSE)

StyledElements == {"em", "i", "strong", "b", "del", "s", "code", "a"}

\* the kind of the mark an element of StyledElements pushes
KindOf(name) == CHOOSE kind \in MarkKinds : name \in KindElements(kind)

(* C23: for em/i, strong/b, del/s, code and a, parse_paragraph returns the
   text of all children, concatenated, and marks whose last entry is a mark
   of the element's kind over 0..text.len(); it pushes one inline node with
   that text and those marks to the caller's accumulator *)
C23_OwnMarkOverWholeText ==
    [][(pc = "parse_paragraph" /\ IsElement(node, StyledElements)) =>
          LET r == Unwrap(text_marks')
          IN  /\ r.text = DomText(node)
              /\ Len(r.marks) > 0
              /\ r.marks[Len(r.marks)].start = 0
              /\ r.marks[Len(r.marks)].end = Len(r.text)
              /\ r.marks[Len(r.marks)].style.kind = KindOf(node.name)
              /\ paragraph' = Append(paragraph, InlineNode(r.text, r.marks))]_vars

\* a link around a styled element with text was pushed after pending text
C23_Witness ==
    /\ pc = "returned" /\ IsSome(text_marks)
    /\ IsElement(node, {"a"})
    /\ Len(node.children) = 1 /\ IsElement(node.children[1], {"strong"})
    /\ Len(Unwrap(text_marks).marks) = 2
    /\ Len(Unwrap(text_marks).text) = 1
    /\ Len(paragraph) = 2
    /\ paragraph[2] = InlineNode(Unwrap(text_marks).text, Unwrap(text_marks).marks)

-----------------------------------------------------------------------------
(* parse_node on the elements that flush the accumulator and build one block:
   a heading, a table, a pre, a block image; with an accumulator that is
   empty, holds text, holds a node without text, or holds an inline image *)

\* the most nodes below the element
MaxFlushNodes == 2

FlushElements == {"h1", "h3", "h6", "table", "pre"}
FlushLeafTags == {"text", "img"}
FlushContainerTags == {"code", "tr", "td", "em"}

InitFlush ==
    /\ pc = "parse_node"
    /\ \/ node = Element("img", SRC, <<>>)
       \/ \E name \in FlushElements : \E shape \in Shapes(MaxFlushNodes) :
            \E tags \in [1..NodeCount(shape) -> FlushLeafTags \cup FlushContainerTags] :
                /\ WellTagged(shape, tags, FlushContainerTags)
                /\ node = Element(name, <<>>, Nodes(shape, tags))
    /\ paragraph \in ImagePendingParagraphs
    /\ block = None
    /\ value = <<>> /\ length = None
    /\ attrs = <<>> /\ size = <<None, None>>
    /\ NoParse /\ NoImage /\ NoInline /\ NoPair

SpecFlush == InitFlush /\ [][Next]_vars

\* the type of the block that the element builds, none for a pre without
\* extractable code
BuiltType(nd) ==
    CASE IsElement(nd, {"h1", "h2", "h3", "h4", "h5", "h6"}) -> Some("Heading")
      [] IsElement(nd, {"table"}) -> Some("Table")
      [] IsElement(nd, {"img"}) -> Some("Paragraph")
      [] IsElement(nd, {"pre"}) ->
            IF IsSome(extract_pre_code(nd)) THEN Some("CodeBlock") ELSE None
      [] OTHER -> None

(* C24: a heading, a table, a pre with extractable code or a block image,
   parsed with an accumulator that is not empty, gives a Root of two children,
   the Paragraph of the pending content and the new block; parsed with an
   empty accumulator it gives the new block itself; the accumulator is empty
   on return.  Empty is Paragraph::is_empty. *)
C24_FlushedThenBlock ==
    [][(pc = "parse_node" /\ IsSome(BuiltType(node))) =>
          LET new_block == Unwrap(parse_node(node, <<>>).block)
          IN  /\ new_block.type = Unwrap(BuiltType(node))
              /\ IF is_empty(paragraph)
                 THEN block' = Some(new_block)
                 ELSE block' = Some(Root(<<ParagraphBlock(paragraph), new_block>>))
              /\ is_empty(paragraph')]_vars

\* a heading with text was parsed with a pending inline image: a Root of the
\* Paragraph and the Heading
C24_Witness ==
    /\ pc = "returned" /\ IsSome(block)
    /\ IsElement(node, {"h3"})
    /\ Unwrap(block).type = "Root"
    /\ Len(Unwrap(block).children) = 2
    /\ Unwrap(block).children[1].type = "Paragraph"
    /\ ImageNodes(Unwrap(block).children[1].paragraph) = 1
    /\ Unwrap(block).children[2].type = "Heading"
    /\ Len(Unwrap(block).children[2].paragraph) > 0
    /\ paragraph = <<>>

-----------------------------------------------------------------------------
(* C25: every direct child of a List block is a ListItem; text pending when
   the list starts and text between the list items does not become a child
   of the List *)
C25_ListChildrenAreListItems ==
    (pc = "returned" /\ IsSome(block)) =>
        \A b \in SubBlocks(Unwrap(block)) :
            b.type = "List" =>
                \A i \in 1..Len(b.children) : b.children[i].type = "ListItem"

-----------------------------------------------------------------------------
(* inline.rs: Inline::paint and the mouse-move handler it registers, for an
   Inline without links.  The text is ASCII and laid out on one line, one
   pixel for each character; offsets are byte offsets. *)

\* the bytes of the text, and the most overlays
MaxTextLen == 3
MaxOverlays == 2

\* window.line_height()
LineHeight == 2

InlineOverlay(offset, placeholder_len) ==
    [offset |-> offset, placeholder_len |-> placeholder_len]

InlineOverlays ==
    {InlineOverlay(o, l) : o \in 0..(MaxTextLen - 1), l \in 1..2}

\* no text view state; one without a selection; one with a selection whose
\* rectangle lies on the line of the text
InlineTextViewStates ==
    {None}
    \cup {Some([is_selectable |-> s, has_selection |-> FALSE,
                selection_bounds |-> Bounds(0, 0, 0, 0)]) : s \in BOOLEAN}
    \cup {Some([is_selectable |-> TRUE, has_selection |-> TRUE,
                selection_bounds |-> Bounds(x, 0, w, 1)]) : x \in Pixels, w \in Pixels}

\* TextLayout::position_for_index
position_for_index(text, index) ==
    IF index <= Len(text) THEN Some([x |-> index, y |-> 0]) ELSE None

\* the width of the character at pos, next being the position of offset + 1
char_width_at(pos, next) ==
    IF IsSome(next) /\ Unwrap(next).y = pos.y
    THEN Unwrap(next).x - pos.x
    ELSE LineHeight \div 2

\* the selection after the character at offset, which is selected
extended(selection, offset) ==
    IF selection = None THEN Some(Selection(offset, offset + 1))
    ELSE Some([Unwrap(selection) EXCEPT !.end = offset + 1])

\* the loop of layout_selections over the characters, from offset on
RECURSIVE select_chars(_, _, _, _)
select_chars(text, offset, selection, bs) ==
    IF offset >= Len(text) THEN selection
    ELSE IF point_in_text_selection(
                Unwrap(position_for_index(text, offset)),
                char_width_at(Unwrap(position_for_index(text, offset)),
                              position_for_index(text, offset + 1)),
                bs, LineHeight)
         THEN select_chars(text, offset + 1, extended(selection, offset), bs)
         ELSE select_chars(text, offset + 1, selection, bs)

\* Inline::layout_selections: (is_selectable, is_selection, selection)
layout_selections(text, tvs) ==
    IF tvs = None
    THEN [is_selectable |-> FALSE, is_selection |-> FALSE, selection |-> None]
    ELSE IF ~Unwrap(tvs).has_selection
         THEN [is_selectable |-> Unwrap(tvs).is_selectable, is_selection |-> FALSE,
               selection |-> None]
         ELSE [is_selectable |-> TRUE, is_selection |-> TRUE,
               selection |-> select_chars(text, 0, None, Unwrap(tvs).selection_bounds)]

Min(a, b) == IF a < b THEN a ELSE b
Max(a, b) == IF a > b THEN a ELSE b

\* the body of the loop over the overlays: a selection that overlaps the
\* placeholder is extended over it
snap_end_only(sel, overlay) ==
    IF sel.end > overlay.offset /\ sel.start < overlay.offset + overlay.placeholder_len
    THEN [sel EXCEPT !.end = Max(sel.end, overlay.offset + overlay.placeholder_len)]
    ELSE sel

snap(sel, overlay) ==
    IF sel.end > overlay.offset /\ sel.start < overlay.offset + overlay.placeholder_len
    THEN Selection(Min(sel.start, overlay.offset),
                   Max(sel.end, overlay.offset + overlay.placeholder_len))
    ELSE sel

\* for overlay in &self.overlays
RECURSIVE snap_each(_, _)
snap_each(sel, os) ==
    IF Len(os) = 0 THEN sel ELSE snap_each(snap(sel, Head(os)), Tail(os))

\* selection.map(|mut sel| ..)
snapped(selection, os) ==
    IF selection = None THEN None ELSE Some(snap_each(Unwrap(selection), os))

InitInlinePaint ==
    /\ pc = "new"
    /\ text_view_state \in InlineTextViewStates
    /\ \E n \in 0..MaxOverlays : overlays \in [1..n -> InlineOverlays]
    /\ state = [InlineState EXCEPT !.text = [i \in 1..MaxTextLen |-> "a"]]
    /\ handler = None
    /\ notified = FALSE
    /\ window = [cursor_style |-> None, selection |-> None]
    /\ alt_text = <<>> /\ bounds = <<>>
    /\ point = <<>> /\ selected = <<>>
    /\ node = NoDom /\ paragraph = <<>> /\ block = None
    /\ value = <<>> /\ length = None
    /\ attrs = <<>> /\ size = <<None, None>>
    /\ NoParse /\ NoPair

\* paint after layout_selections returned r and the selection was snapped
InlinePainted(r, selection) ==
    /\ state' = [state EXCEPT !.selection = selection]
    /\ window' = [cursor_style |-> IF r.is_selection \/ r.is_selectable
                                   THEN Some("IBeam") ELSE None,
                  selection |-> selection]
    /\ handler' = Some(state.hovered_index)

\* paint after layout_selections returned r
InlineLaidOut(r) == InlinePainted(r, snapped(r.selection, overlays))

\* Inline::paint
InlinePaint ==
    /\ pc \in {"new", "painted", "handled"}
    /\ InlineLaidOut(layout_selections(state.text, text_view_state))
    /\ notified' = FALSE
    /\ pc' = "painted"
    /\ UNCHANGED <<text_view_state, alt_text, bounds, overlays, point, selected,
                   domVars, lenVars, attrVars, parseVars, pairVars>>

\* the event as the handler sees it: the phase, hitbox.is_hovered(window) and
\* text_layout.index_for_position(event.position).ok()
MouseMoveEvents ==
    [bubble : BOOLEAN, is_hovered : BOOLEAN,
     index : {None} \cup {Some(i) : i \in 0..MaxTextLen}]

\* the shared state after the handler found the hovered index updated: the
\* handler assigns its captured copy only
state_written(st, updated) == [st EXCEPT !.hovered_index = updated]

state_after_move(st, updated) == st

\* the mouse-move handler registered by the last paint
MouseMove ==
    /\ pc \in {"painted", "handled"}
    /\ \E event \in MouseMoveEvents :
          IF ~event.bubble \/ ~event.is_hovered
          THEN /\ notified' = FALSE
               /\ UNCHANGED <<handler, state>>
          ELSE IF Unwrap(handler) # event.index
               THEN /\ handler' = Some(event.index)
                    /\ state' = state_after_move(state, event.index)
                    /\ notified' = TRUE
               ELSE /\ notified' = FALSE
                    /\ UNCHANGED <<handler, state>>
    /\ pc' = "handled"
    /\ UNCHANGED <<text_view_state, alt_text, bounds, window, overlays, point, selected,
                   domVars, lenVars, attrVars, parseVars, pairVars>>

NextInlinePaint == InlinePaint \/ MouseMove

SpecInlinePaint == InitInlinePaint /\ [][NextInlinePaint]_vars

OverlayEnd(overlay) == overlay.offset + overlay.placeholder_len

\* no two overlays share a byte
PairwiseDisjoint(os) ==
    \A i, j \in 1..Len(os) :
        i # j => (OverlayEnd(os[i]) <= os[j].offset \/ OverlayEnd(os[j]) <= os[i].offset)

(* C26: after the snapping step, the overlays being pairwise disjoint, the
   selection contains the whole placeholder range of an overlay or does not
   intersect it; it contains the selection that was laid out; and snapping it
   again gives the same selection *)
C26_NoOverlayPartlySelected ==
    (pc \in {"painted", "handled"} /\ IsSome(state.selection) /\ PairwiseDisjoint(overlays)) =>
        LET sel == Unwrap(state.selection)
            laid == Unwrap(layout_selections(state.text, text_view_state).selection)
        IN  /\ \A i \in 1..Len(overlays) :
                  \/ sel.start <= overlays[i].offset /\ OverlayEnd(overlays[i]) <= sel.end
                  \/ sel.end <= overlays[i].offset
                  \/ OverlayEnd(overlays[i]) <= sel.start
            /\ sel.start <= laid.start /\ laid.end <= sel.end
            /\ snap_each(sel, overlays) = sel

\* two disjoint overlays, each partly inside the selection that was laid out,
\* were both taken in whole
C26_Witness ==
    /\ pc = "painted" /\ IsSome(state.selection)
    /\ Len(overlays) = 2 /\ PairwiseDisjoint(overlays)
    /\ LET sel == Unwrap(state.selection)
           laid == Unwrap(layout_selections(state.text, text_view_state).selection)
       IN  /\ sel.start < laid.start /\ laid.end < sel.end
           /\ \A i \in 1..2 :
                  sel.start <= overlays[i].offset /\ OverlayEnd(overlays[i]) <= sel.end

(* C30: no paint and no mouse move changes hovered_index of the shared state,
   which keeps its initial value; a mouse move notifies the view exactly when
   it finds a hovered index that differs from the handler's copy, and then
   only the copy is updated *)
C30_HoveredIndexNeverChanged ==
    [][/\ pc \in {"new", "painted", "handled"} =>
            /\ state'.hovered_index = state.hovered_index
            /\ state'.hovered_index = InlineState.hovered_index
       /\ pc' = "handled" => (notified' <=> handler' # handler)]_vars

\* a mouse move over the text updated the handler's copy and notified the
\* view; the shared state has no hovered index
C30_Witness ==
    /\ pc = "handled"
    /\ notified
    /\ handler = Some(Some(1))
    /\ state.hovered_index = None
    /\ state.selection # None

-----------------------------------------------------------------------------
(* parse_node on one node of each kind that stands at a block boundary: every
   name of BLOCK_ELEMENTS, a comment, a doctype and a processing instruction,
   with an accumulator that is empty, holds text, holds a node without text,
   or holds an inline image *)

\* the most nodes below the element
MaxBlockNodes == 2

BlockLeafTags == {"text", "img", "emoji", "comment"}
BlockContainerTags == {"span", "li"}

\* NodeData::Doctype and NodeData::ProcessingInstruction
Doctype ==
    [kind |-> "Doctype", name |-> "html", attrs |-> <<>>, contents |-> <<>>,
     children |-> <<>>]
ProcessingInstruction ==
    [kind |-> "ProcessingInstruction", name |-> "", attrs |-> <<>>,
     contents |-> <<"c">>, children |-> <<>>]

InitBlock ==
    /\ pc = "parse_node"
    /\ \/ node \in {Comment(<<"c">>), Doctype, ProcessingInstruction}
       \/ \E name \in BLOCK_ELEMENTS : \E shape \in Shapes(MaxBlockNodes) :
            \E tags \in [1..NodeCount(shape) -> BlockLeafTags \cup BlockContainerTags] :
                /\ WellTagged(shape, tags, BlockContainerTags)
                /\ node = Element(name, <<>>, Nodes(shape, tags))
    /\ paragraph \in ImagePendingParagraphs
    /\ block = None
    /\ value = <<>> /\ length = None
    /\ attrs = <<>> /\ size = <<None, None>>
    /\ NoParse /\ NoImage /\ NoInline /\ NoPair

SpecBlock == InitBlock /\ [][Next]_vars

\* the nodes that parse_node passes over
PassedOver(nd) ==
    \/ IsElement(nd, {"style", "script"})
    \/ nd.kind \in {"Comment", "Doctype", "ProcessingInstruction"}

(* C27: after parse_node returns for an element of BLOCK_ELEMENTS other than
   style and script the accumulator is empty (Paragraph::is_empty: no node of
   it has text or an image); for style, script, comment, doctype and
   processing-instruction nodes the accumulator is left as it was and no
   block is returned *)
C27_NothingPendingAfterBlock ==
    [][pc = "parse_node" =>
          /\ IsElement(node, BLOCK_ELEMENTS \ {"style", "script"}) =>
                is_empty(paragraph')
          /\ PassedOver(node) => (paragraph' = paragraph /\ block' = None)]_vars

\* a p with text and an emoji image was parsed with pending text: the pending
\* text and the content of the p are two Paragraphs, and nothing is pending
C27_Witness ==
    /\ pc = "returned" /\ IsSome(block)
    /\ IsElement(node, {"p"})
    /\ Len(node.children) = 2
    /\ Unwrap(block).type = "Root"
    /\ Len(Unwrap(block).children) = 2
    /\ Unwrap(block).children[1] = ParagraphBlock(push_str(<<>>, <<"0">>))
    /\ Unwrap(block).children[2].type = "Paragraph"
    /\ ImageNodes(Unwrap(block).children[2].paragraph) = 1
    /\ text_len(Unwrap(block).children[2].paragraph) = 1
    /\ paragraph = <<>>

-----------------------------------------------------------------------------
(* The text and the mark ranges of parse_paragraph, over the trees of
   SpecParagraph *)

\* the nodes that the call appended to the accumulator before
Appended(before, after) == SubSeq(after, Len(before) + 1, Len(after))

(* C28: the text returned by parse_paragraph is the concatenation, in document
   order, of the text nodes at or below the node, whatever tags enclose them
   (an img adds nothing); the call keeps the nodes of the caller's
   accumulator and appends nodes whose texts concatenate to the same string *)
C28_TextOfAllDescendants ==
    [][pc = "parse_paragraph" =>
          /\ Unwrap(text_marks').text = DomText(node)
          /\ Len(paragraph') >= Len(paragraph)
          /\ SubSeq(paragraph', 1, Len(paragraph)) = paragraph
          /\ ParagraphText(Appended(paragraph, paragraph')) = DomText(node)]_vars

\* text nodes at two depths, below an element with an element child, were
\* returned in document order and pushed once after the pending text
C28_Witness ==
    /\ pc = "returned" /\ IsSome(text_marks)
    /\ node.kind = "Element" /\ Len(node.children) = 2
    /\ node.children[1].kind = "Element" /\ Len(node.children[1].children) = 2
    /\ node.children[2].kind = "Text"
    /\ Unwrap(text_marks).text = <<"a", "b", "c">>
    /\ ParagraphText(paragraph) = <<"0", "a", "b", "c">>

\* the marks are ranges within a text of the length
InRange(marks, len) ==
    \A i \in 1..Len(marks) :
        0 <= marks[i].start /\ marks[i].start <= marks[i].end /\ marks[i].end <= len

(* C29: every mark that parse_paragraph returns, and every mark of an inline
   node in the accumulator it leaves, has 0 <= start <= end <= the length of
   the text it is attached to *)
C29_MarksWithinText ==
    (pc = "returned" /\ IsSome(text_marks)) =>
        /\ InRange(Unwrap(text_marks).marks, Len(Unwrap(text_marks).text))
        /\ \A i \in 1..Len(paragraph) :
                InRange(paragraph[i].marks, Len(paragraph[i].text))

\* a mark of a child that follows a text was shifted: it starts behind 0 and
\* is attached to the node that was pushed
C29_Witness ==
    /\ pc = "returned" /\ IsSome(text_marks)
    /\ Len(Unwrap(text_marks).marks) = 2
    /\ Unwrap(text_marks).marks[1].start = 1
    /\ Unwrap(text_marks).marks[1].end = 2
    /\ Len(Unwrap(text_marks).text) = 3
    /\ paragraph[Len(paragraph)].marks = Unwrap(text_marks).marks

=============================================================================
